---- MODULE Spec2Model ----
(***************************************************************************)
(* Receipt detection, scan history reconciliation and the scan screen of   *)
(* the telegram mini app.                                                  *)
(*                                                                         *)
(* The specifications share the variables: SpecDetect (getValidCheckUrl    *)
(* on scanned texts), Spec and SpecPoll (the scan history page), SpecTg    *)
(* (the scanner entry point of the web page), SpecScan (the scan screen),  *)
(* SpecDetails (the details panel) and SpecList (the history list with     *)
(* its delete action). Each leaves the variables of the others at their    *)
(* initial values.                                                         *)
(*                                                                         *)
(* Text is modelled as a sequence of tokens: one token per character,      *)
(* except for a few lexical units that the code only ever compares as a    *)
(* whole (the URL scheme, the host name, the path, query parameter names,  *)
(* percent escapes and the FN / N / MAC= markers of the compact format).   *)
(***************************************************************************)
EXTENDS Integers, Sequences, FiniteSets, Bags, TLC

VARIABLES
    \* ---- detection harness (web/js/utils.js) ----
    dPc,        \* "start" | "one" | "two" | "back"
    dRc,        \* the receipt whose encodings are scanned
    dKind,      \* form of the first scanned text: "url" | "short" | "loose" | "other"
    dLacks,     \* fields the first scanned text does not carry
    dIn,        \* first scanned text
    dOut,       \* getValidCheckUrl(dIn)
    dIn2,       \* compact-text encoding of the same receipt, scanned second
    dOut2,      \* getValidCheckUrl(dIn2)
    dBack,      \* getValidCheckUrl(dOut)
    \* ---- scan history page (api.js, render.js, app.js, state.js) ----
    scans,          \* state.scans: the visible scan records
    allScans,       \* state.allScans: every scan record loaded so far
    visibleCount,   \* state.visibleCount
    loadedCount,    \* state.loadedCount
    hasMore,        \* state.hasMore
    findStatus,     \* state.findStatus: key -> "loading" | "founded" | "failed" ("none": no entry)
    saveStatus,     \* state.saveStatus: key -> "loading" | "saved" | "failed" ("none": no entry)
    checkCache,     \* state.checkCache: key -> cached receipt
    selectedScan,   \* state.selectedScan: raw_text of the scan whose details are shown
    calls,          \* the suspended async invocations with their request or response
    db,             \* the check_status the storage layer holds for each scanned text
    started,        \* initTelegram has run
    histFresh,      \* a fetchHistory has completed and no handler has run since
    clicks,         \* number of menu and button actions of the user so far
    \* ---- the Telegram platform ----
    now,            \* Date.now()
    popupOpen,      \* the QR scanner popup is open
    \* ---- scanner entry point of the web page (telegram.js) ----
    lastText,       \* state.lastText
    lastTextAt,     \* state.lastTextAt
    continuousScan, \* state.continuousScan
    delivered,      \* scanned text -> time of its latest delivery
    lastDelivery,   \* the latest delivery: its text, its time, the time of the
                    \* delivery of the same text before it, whether it was accepted
    \* ---- scan screen (ScanQRScreen.tsx) ----
    scanStatus,     \* "idle" | "scanning" | "saving" | "success" | "error"
    scanResult,     \* the stored scan shown for saving, or NoResult
    error,          \* the error message shown, "" for null
    savingExpense,
    showDuplicatePrompt,
    duplicateCount,
    lastScanRef,    \* text and time of the latest accepted delivery, or NoScan
    left,           \* onBack has been called
    requests,       \* the /api/scan and /api/expense requests in flight
    existing,       \* check id -> number of expenses the storage layer holds
    answered409,    \* check ids for which a 409 has been received
    lastSent,       \* the latest /api/expense request sent
    \* ---- details panel (render.js, api.js) ----
    checkParsed,    \* state.checkParsed: check id -> parsed summary
    checkRaw,       \* state.checkRaw: check id -> raw document
    parsedStore,    \* localStorage parsedCheck:<id>
    shownParsed,    \* the parsed summary the panel shows
    shownRaw,       \* the raw document the panel shows
    detailId,       \* scan -> the check id showDetails derives for it
    \* ---- the user ----
    deleted         \* ids of the scans the user has deleted from the list

detVars == <<dPc, dRc, dKind, dLacks, dIn, dOut, dIn2, dOut2, dBack>>

histVars ==
    <<scans, allScans, visibleCount, loadedCount, hasMore, findStatus, saveStatus,
      checkCache, selectedScan, calls, db, started, histFresh, clicks>>

platformVars == <<now, popupOpen>>

tgVars == <<lastText, lastTextAt, continuousScan, delivered, lastDelivery>>

screenVars ==
    <<scanStatus, scanResult, error, savingExpense, showDuplicatePrompt, duplicateCount,
      lastScanRef, left, requests, existing, answered409, lastSent>>

detailVars == <<checkParsed, checkRaw, parsedStore, shownParsed, shownRaw, detailId>>

vars == <<detVars, histVars, platformVars, tgVars, screenVars, detailVars, deleted>>

-----------------------------------------------------------------------------
(* Token-level string helpers *)

\* JavaScript null for a string-valued result
Null == <<"<null>">>

Digit == {"0", "1", "2", "3", "4", "5", "6", "7", "8", "9"}

WS == {" "}

IsDigits(s) == Len(s) >= 1 /\ \A i \in 1..Len(s) : s[i] \in Digit

\* a || b on strings
Truthy(v) == v # Null /\ v # <<>>

OrElse(a, b) == IF Truthy(a) THEN a ELSE b

\* String.prototype.split on any of the separator tokens
RECURSIVE SplitBy(_, _)
SplitBy(s, seps) ==
    IF \E i \in 1..Len(s) : s[i] \in seps
    THEN LET i == CHOOSE k \in 1..Len(s) :
                    s[k] \in seps /\ \A j \in 1..(k - 1) : s[j] \notin seps
         IN <<SubSeq(s, 1, i - 1)>> \o SplitBy(SubSeq(s, i + 1, Len(s)), seps)
    ELSE <<s>>

NonEmptyPieces(ps) == SelectSeq(ps, LAMBDA p : p # <<>>)

RECURSIVE Join(_, _)
Join(ps, sep) ==
    IF ps = <<>> THEN <<>>
    ELSE IF Len(ps) = 1 THEN ps[1]
    ELSE ps[1] \o sep \o Join(Tail(ps), sep)

RECURSIVE TrimLeft(_)
TrimLeft(s) == IF s # <<>> /\ s[1] \in WS THEN TrimLeft(Tail(s)) ELSE s

RECURSIVE TrimRight(_)
TrimRight(s) ==
    IF s # <<>> /\ s[Len(s)] \in WS THEN TrimRight(SubSeq(s, 1, Len(s) - 1)) ELSE s

\* String.prototype.trim
Trim(s) == TrimRight(TrimLeft(s))

\* String.prototype.padStart(2, "0")
padStart2(s) ==
    IF Len(s) >= 2 THEN s
    ELSE IF Len(s) = 1 THEN <<"0">> \o s
    ELSE <<"0", "0">>

\* String.prototype.replace(",", "."): the first comma only
replaceComma(s) ==
    IF \E i \in 1..Len(s) : s[i] = ","
    THEN LET i == CHOOSE k \in 1..Len(s) :
                    s[k] = "," /\ \A j \in 1..(k - 1) : s[j] # ","
         IN [s EXCEPT ![i] = "."]
    ELSE s

-----------------------------------------------------------------------------
(* application/x-www-form-urlencoded and the URL parser's query encoding *)

\* URLSearchParams.toString(): serializer of one value
FormEncodeTok(c) ==
    CASE c = " " -> "+"
      [] c = ":" -> "%3A"
      [] c = "," -> "%2C"
      [] c = "+" -> "%2B"
      [] c = "=" -> "%3D"
      [] OTHER   -> c

FormEncode(v) == [i \in 1..Len(v) |-> FormEncodeTok(v[i])]

\* URLSearchParams parsing: '+' is a space, percent escapes are decoded
FormDecodeTok(c) ==
    CASE c = "+"   -> " "
      [] c = "%20" -> " "
      [] c = "%3A" -> ":"
      [] c = "%2C" -> ","
      [] c = "%2B" -> "+"
      [] c = "%3D" -> "="
      [] OTHER     -> c

FormDecode(v) == [i \in 1..Len(v) |-> FormDecodeTok(v[i])]

\* the URL parser percent-encodes a space of the query; the other tokens of
\* the alphabet are kept as written
QueryEncodeTok(c) == IF c = " " THEN "%20" ELSE c

QueryEncode(q) == [i \in 1..Len(q) |-> QueryEncodeTok(q[i])]

\* one "name=value" piece of a query string -> <<name, value>>, decoded
ParsePair(piece) ==
    IF \E i \in 1..Len(piece) : piece[i] = "="
    THEN LET i == CHOOSE k \in 1..Len(piece) :
                    piece[k] = "=" /\ \A j \in 1..(k - 1) : piece[j] # "="
         IN <<FormDecode(SubSeq(piece, 1, i - 1)),
              FormDecode(SubSeq(piece, i + 1, Len(piece)))>>
    ELSE <<FormDecode(piece), <<>>>>

\* new URLSearchParams(string): the list of decoded pairs, in order
ParseQuery(q) ==
    LET pieces == NonEmptyPieces(SplitBy(q, {"&"}))
    IN [i \in 1..Len(pieces) |-> ParsePair(pieces[i])]

\* URLSearchParams.get: the first value of that name, else null
SearchGet(pairs, name) ==
    IF \E i \in 1..Len(pairs) : pairs[i][1] = <<name>>
    THEN LET i == CHOOSE k \in 1..Len(pairs) :
                    pairs[k][1] = <<name>> /\ \A j \in 1..(k - 1) : pairs[j][1] # <<name>>
         IN pairs[i][2]
    ELSE Null

\* a faulty variant: the pairs are joined with ";" as in the loose scanned form
SerializeParamsSemicolon(params) ==
    Join([i \in 1..Len(params) |-> <<params[i][1], "=">> \o FormEncode(params[i][2])],
         <<";">>)

\* new URLSearchParams(object).toString(): own keys in insertion order
SerializeParams(params) ==
    Join([i \in 1..Len(params) |-> <<params[i][1], "=">> \o FormEncode(params[i][2])],
         <<"&">>)

-----------------------------------------------------------------------------
(* utils.js: parseShortTaxFormat *)

ShortWords(value) == NonEmptyPieces(SplitBy(value, WS))

\* FN(?<fn>\d+), case-insensitive
MatchFn(w) == Len(w) >= 2 /\ w[1] \in {"FN", "fn"} /\ IsDigits(Tail(w))

\* N(?<id>\d+), case-insensitive
MatchN(w) == Len(w) >= 2 /\ w[1] \in {"N", "n"} /\ IsDigits(Tail(w))

\* =?(?<sm>\d+[.,]\d+)
SmBody(w) == IF w # <<>> /\ w[1] = "=" THEN Tail(w) ELSE w

MatchSm(w) ==
    LET p == SplitBy(SmBody(w), {".", ","})
    IN Len(p) = 2 /\ IsDigits(p[1]) /\ IsDigits(p[2])

\* (?<date>\d{1,2}\.\d{1,2}\.\d{4})
MatchDate(w) ==
    LET p == SplitBy(w, {"."})
    IN /\ Len(p) = 3
       /\ IsDigits(p[1]) /\ Len(p[1]) <= 2
       /\ IsDigits(p[2]) /\ Len(p[2]) <= 2
       /\ IsDigits(p[3]) /\ Len(p[3]) = 4

\* (?<time>\d{1,2}:\d{2}:\d{2})
MatchTime(w) ==
    LET p == SplitBy(w, {":"})
    IN /\ Len(p) = 3
       /\ IsDigits(p[1]) /\ Len(p[1]) <= 2
       /\ IsDigits(p[2]) /\ Len(p[2]) = 2
       /\ IsDigits(p[3]) /\ Len(p[3]) = 2

\* (?:\s+MAC=(?<mac>\S+))?
MatchMac(w) == Len(w) >= 2 /\ w[1] \in {"MAC=", "mac="}

\* the whole regular expression, anchored at both ends
ShortMatches(value) ==
    LET w == ShortWords(value)
    IN /\ value # <<>> /\ value[1] \notin WS
       /\ Len(w) \in {5, 6}
       /\ MatchFn(w[1]) /\ MatchN(w[2]) /\ MatchSm(w[3])
       /\ MatchDate(w[4]) /\ MatchTime(w[5])
       /\ (Len(w) = 6 => MatchMac(w[6]))

\* a faulty variant: day and month are not padded
shortDateUnpadded(w) ==
    LET d == SplitBy(w, {"."}) IN d[3] \o d[2] \o d[1]

\* `${year}${month.padStart(2, "0")}${day.padStart(2, "0")}`
shortDate(w) ==
    LET d == SplitBy(w, {"."}) IN d[3] \o padStart2(d[2]) \o padStart2(d[1])

\* a faulty variant: the hour is not padded
shortTimeUnpadded(w) ==
    LET t == SplitBy(w, {":"}) IN t[1] \o t[2] \o t[3]

\* `${hh.padStart(2, "0")}${mm.padStart(2, "0")}${ss.padStart(2, "0")}`
shortTime(w) ==
    LET t == SplitBy(w, {":"}) IN padStart2(t[1]) \o padStart2(t[2]) \o padStart2(t[3])

\* the object literal's keys are created in the order fn, id, sm, date, time;
\* <<>> stands for null
parseShortTaxFormat(value) ==
    IF ~ShortMatches(value) THEN <<>>
    ELSE LET w == ShortWords(value)
         IN << <<"fn", Tail(w[1])>>,
               <<"id", Tail(w[2])>>,
               <<"sm", replaceComma(SmBody(w[3]))>>,
               <<"date", shortDate(w[4])>>,
               <<"time", shortTime(w[5])>> >>

-----------------------------------------------------------------------------
(* utils.js: parseCheckParams *)

\* tValue.replace(/[^0-9T]/g, "")
NormalizeT(tValue) == SelectSeq(tValue, LAMBDA c : c \in Digit \cup {"T"})

TRest(n) ==
    IF Len(n) >= 9 /\ n[9] = "T" THEN SubSeq(n, 10, Len(n)) ELSE SubSeq(n, 9, Len(n))

\* normalized.match(/^(\d{8})T?(\d{4})(\d{2})?$/)
MatchT(n) ==
    /\ Len(n) >= 8
    /\ IsDigits(SubSeq(n, 1, 8))
    /\ Len(TRest(n)) \in {4, 6}
    /\ IsDigits(TRest(n))

\* rawText.trim().replace(/^[?]/, "")
Cleaned(rawText) ==
    LET t == Trim(rawText)
    IN IF t # <<>> /\ t[1] = "?" THEN Tail(t) ELSE t

\* a faulty variant: sm is not required
looseParamsNoSmCheck(cleaned) ==
    LET search == ParseQuery([i \in 1..Len(cleaned) |->
                                 IF cleaned[i] = ";" THEN "&" ELSE cleaned[i]])
        fn == SearchGet(search, "fn")
        id == OrElse(SearchGet(search, "id"), SearchGet(search, "i"))
        sm == OrElse(SearchGet(search, "sm"), SearchGet(search, "s"))
        date == SearchGet(search, "date")
        time == SearchGet(search, "time")
    IN IF ~Truthy(fn) \/ ~Truthy(id) \/ ~Truthy(date) \/ ~Truthy(time)
       THEN <<>>
       ELSE << <<"fn", fn>>, <<"id", id>>, <<"sm", IF Truthy(sm) THEN sm ELSE <<>> >>,
               <<"time", time>>, <<"date", date>> >>

\* lines 115-141: the loose query-string form; the returned object's keys are
\* created in the order fn, id, sm, time, date
looseParams(cleaned) ==
    LET search == ParseQuery([i \in 1..Len(cleaned) |->
                                 IF cleaned[i] = ";" THEN "&" ELSE cleaned[i]])
        fn == SearchGet(search, "fn")
        id == OrElse(SearchGet(search, "id"), SearchGet(search, "i"))
        sm == OrElse(SearchGet(search, "sm"), SearchGet(search, "s"))
        date0 == SearchGet(search, "date")
        time0 == SearchGet(search, "time")
        tValue == SearchGet(search, "t")
        useT == (~Truthy(date0) \/ ~Truthy(time0)) /\ Truthy(tValue)
                    /\ MatchT(NormalizeT(tValue))
        n == NormalizeT(tValue)
        date == IF useT /\ ~Truthy(date0) THEN SubSeq(n, 1, 8) ELSE date0
        time == IF useT /\ ~Truthy(time0) THEN TRest(n) ELSE time0
    IN IF ~Truthy(fn) \/ ~Truthy(id) \/ ~Truthy(sm) \/ ~Truthy(date) \/ ~Truthy(time)
       THEN <<>>
       ELSE << <<"fn", fn>>, <<"id", id>>, <<"sm", sm>>,
               <<"time", time>>, <<"date", date>> >>

parseCheckParams(rawText) ==
    LET cleaned == Cleaned(rawText)
    IN IF cleaned = <<>> THEN <<>>
       ELSE IF parseShortTaxFormat(cleaned) # <<>> THEN parseShortTaxFormat(cleaned)
       ELSE looseParams(cleaned)

-----------------------------------------------------------------------------
(* new URL(rawText): the WHATWG URL parser on the token alphabet *)

SchemeTokens == {"https://", "http://"}

HostTokens == {"cabinet.tax.gov.ua", "CABINET.TAX.GOV.UA", "example.com"}

PathTokens == {"/cashregs/check", "/other"}

\* new URL(rawText) does not throw: the text starts with a scheme and a host.
\* Every other text of the alphabet has no scheme (its first token is no
\* scheme, or a character that cannot be part of one precedes the first
\* colon), and without a base URL the parser fails.
UrlParses(raw) == Len(raw) >= 2 /\ raw[1] \in SchemeTokens /\ raw[2] \in HostTokens

\* url.hostname: the host parser lower-cases the domain
UrlHostname(raw) == IF raw[2] = "CABINET.TAX.GOV.UA" THEN "cabinet.tax.gov.ua" ELSE raw[2]

\* url.pathname: "/" when the text has no path
UrlPathname(raw) == IF Len(raw) >= 3 /\ raw[3] \in PathTokens THEN raw[3] ELSE "/"

UrlAfterPath(raw) ==
    IF Len(raw) >= 3 /\ raw[3] \in PathTokens THEN SubSeq(raw, 4, Len(raw))
    ELSE SubSeq(raw, 3, Len(raw))

UrlHasQuery(raw) == UrlAfterPath(raw) # <<>> /\ UrlAfterPath(raw)[1] = "?"

\* the raw query, without the leading "?"
UrlQuery(raw) == IF UrlHasQuery(raw) THEN Tail(UrlAfterPath(raw)) ELSE <<>>

\* url.searchParams
UrlSearchParams(raw) == ParseQuery(UrlQuery(raw))

\* url.toString(): the serialized URL
UrlToString(raw) ==
    <<raw[1], UrlHostname(raw), UrlPathname(raw)>>
        \o (IF UrlHasQuery(raw) THEN <<"?">> \o QueryEncode(UrlQuery(raw)) ELSE <<>>)

-----------------------------------------------------------------------------
(* utils.js: getValidCheckUrl *)

required == <<"fn", "id", "sm", "time", "date">>

hasAll(raw) ==
    \A i \in 1..Len(required) : Truthy(SearchGet(UrlSearchParams(raw), required[i]))

CheckUrlPrefix == <<"https://", "cabinet.tax.gov.ua", "/cashregs/check", "?">>

\* what a call that ends with an exception is recorded as
Thrown == <<"<exception>">>

\* a faulty variant: new URL(rawText) is not wrapped in try/catch
getValidCheckUrlNoCatch(rawText) ==
    IF rawText = <<>> \/ rawText = Null THEN Null
    ELSE IF ~UrlParses(rawText) THEN Thrown
    ELSE IF UrlHostname(rawText) # "cabinet.tax.gov.ua" THEN Null
    ELSE IF UrlPathname(rawText) # "/cashregs/check" THEN Null
    ELSE IF hasAll(rawText) THEN UrlToString(rawText) ELSE Null

\* lines 87-106; the TypeError of new URL(rawText) is caught and the text goes
\* on to parseCheckParams, whose string operations are total
getValidCheckUrl(rawText) ==
    IF rawText = <<>> \/ rawText = Null THEN Null
    ELSE IF UrlParses(rawText)
    THEN IF UrlHostname(rawText) # "cabinet.tax.gov.ua" THEN Null
         ELSE IF UrlPathname(rawText) # "/cashregs/check" THEN Null
         ELSE IF hasAll(rawText) THEN UrlToString(rawText) ELSE Null
    ELSE IF parseCheckParams(rawText) = <<>> THEN Null
    ELSE CheckUrlPrefix \o SerializeParams(parseCheckParams(rawText))

\* the identifying fields a lookup URL carries, as its search parameters give them
FieldsOf(url) ==
    [k \in {"fn", "id", "sm", "time", "date"} |-> SearchGet(UrlSearchParams(url), k)]

-----------------------------------------------------------------------------
(* Scanned texts: the encodings of a receipt that the detection is run on *)

\* the receipts: the printed parts of fiscal number, sequence id, amount,
\* date and time
Receipts ==
    [fn : {<<"4", "0">>}, id : {<<"7">>, <<"9", "8">>},
     smInt : {<<"1", "2">>}, smFrac : {<<"5", "0">>},
     day : {<<"5">>, <<"1", "5">>}, month : {<<"1">>}, year : {<<"2", "0", "2", "6">>},
     hh : {<<"9">>, <<"1", "5">>}, mm : {<<"3", "0">>}, ss : {<<"0", "7">>}]

FieldNames == {"fn", "id", "sm", "time", "date"}

TwoDigits(s) == IF Len(s) = 1 THEN <<"0">> \o s ELSE s

\* the identifying fields of a receipt: amount with a dot, date as YYYYMMDD,
\* time as HHMMSS
CanonFields(rc) ==
    [k \in FieldNames |->
        CASE k = "fn"   -> rc.fn
          [] k = "id"   -> rc.id
          [] k = "sm"   -> rc.smInt \o <<".">> \o rc.smFrac
          [] k = "date" -> rc.year \o TwoDigits(rc.month) \o TwoDigits(rc.day)
          [] k = "time" -> TwoDigits(rc.hh) \o rc.mm \o rc.ss]

ParamOrders ==
    << <<"fn", "id", "sm", "time", "date">>,
       <<"id", "date", "time", "fn", "sm">>,
       <<"fn", "id", "sm", "date", "time">> >>

UrlBase ==
    [order |-> 1, scheme |-> "https://", host |-> "cabinet.tax.gov.ua",
     path |-> "/cashregs/check", lacks |-> {}, empty |-> {}, colons |-> FALSE,
     extra |-> FALSE]

UrlVariants ==
    {[UrlBase EXCEPT !.order = o, !.extra = e] : o \in 1..3, e \in BOOLEAN}
    \cup {[UrlBase EXCEPT !.scheme = "http://"],
          [UrlBase EXCEPT !.host = "CABINET.TAX.GOV.UA"],
          [UrlBase EXCEPT !.host = "example.com"],
          [UrlBase EXCEPT !.path = "/other"],
          [UrlBase EXCEPT !.colons = TRUE]}
    \cup {[UrlBase EXCEPT !.lacks = {k}] : k \in FieldNames}
    \cup {[UrlBase EXCEPT !.empty = {k}] : k \in FieldNames}

UrlValue(rc, v, k) ==
    IF k \in v.empty THEN <<>>
    ELSE IF k = "time" /\ v.colons
    THEN TwoDigits(rc.hh) \o <<":">> \o rc.mm \o <<":">> \o rc.ss
    ELSE CanonFields(rc)[k]

\* a receipt URL of the fiscal authority
UrlText(rc, v) ==
    LET keys == SelectSeq(ParamOrders[v.order], LAMBDA k : k \notin v.lacks)
    IN <<v.scheme, v.host, v.path, "?">>
        \o Join([i \in 1..Len(keys) |-> <<keys[i], "=">> \o UrlValue(rc, v, keys[i])],
                <<"&">>)
        \o (IF v.extra THEN <<"&", "mac", "=", "7">> ELSE <<>>)

ShortBase == [sep |-> ",", eq |-> TRUE, mac |-> FALSE, lower |-> FALSE, lacks |-> {}]

ShortVariants ==
    {[ShortBase EXCEPT !.sep = s, !.eq = e, !.mac = m] :
        s \in {",", "."}, e \in BOOLEAN, m \in BOOLEAN}
    \cup {[ShortBase EXCEPT !.lower = TRUE]}
    \cup {[ShortBase EXCEPT !.lacks = {k}] : k \in FieldNames}

\* the compact text "FN<fn> N<id> =<sm> D.M.YYYY H:MM:SS [MAC=...]"
ShortText(rc, v) ==
    LET words ==
            << IF "fn" \in v.lacks THEN <<>>
               ELSE <<IF v.lower THEN "fn" ELSE "FN">> \o rc.fn,
               IF "id" \in v.lacks THEN <<>>
               ELSE <<IF v.lower THEN "n" ELSE "N">> \o rc.id,
               IF "sm" \in v.lacks THEN <<>>
               ELSE (IF v.eq THEN <<"=">> ELSE <<>>) \o rc.smInt \o <<v.sep>> \o rc.smFrac,
               IF "date" \in v.lacks THEN <<>>
               ELSE rc.day \o <<".">> \o rc.month \o <<".">> \o rc.year,
               IF "time" \in v.lacks THEN <<>>
               ELSE rc.hh \o <<":">> \o rc.mm \o <<":">> \o rc.ss,
               IF v.mac THEN <<"MAC=", "a", "b">> ELSE <<>> >>
    IN Join(NonEmptyPieces(words), <<" ">>)

LooseBase == [sep |-> "&", lead |-> FALSE, style |-> "full", lacks |-> {}]

LooseStyles == {"full", "colons", "alias", "aliasNoT", "aliasNoSec", "aliasBadT"}

LooseVariants ==
    {[LooseBase EXCEPT !.sep = s, !.lead = l, !.style = st] :
        s \in {"&", ";"}, l \in BOOLEAN, st \in LooseStyles \ {"aliasBadT"}}
    \cup {[LooseBase EXCEPT !.lacks = {k}] : k \in FieldNames}
    \cup {[LooseBase EXCEPT !.style = "alias", !.lacks = {k}] : k \in {"fn", "id", "sm"}}
    \cup {[LooseBase EXCEPT !.style = "alias", !.lacks = {"date", "time"}],
          [LooseBase EXCEPT !.style = "aliasBadT", !.lacks = {"date", "time"}]}

\* the combined value of the t alias
LooseT(rc, style) ==
    LET d == CanonFields(rc)["date"]
    IN CASE style = "alias"      -> d \o <<"T">> \o CanonFields(rc)["time"]
         [] style = "aliasNoT"   -> d \o CanonFields(rc)["time"]
         [] style = "aliasNoSec" -> d \o <<"T">> \o TwoDigits(rc.hh) \o rc.mm
         [] OTHER                -> rc.year

\* the loose query string, "&" or ";" separated, with or without the aliases
LooseText(rc, v) ==
    LET f == CanonFields(rc)
        full == v.style \in {"full", "colons"}
        time == IF v.style = "colons"
                THEN TwoDigits(rc.hh) \o <<":">> \o rc.mm \o <<":">> \o rc.ss
                ELSE f["time"]
        pieces ==
            << IF "fn" \in v.lacks THEN <<>> ELSE <<"fn", "=">> \o f["fn"],
               IF "id" \in v.lacks THEN <<>>
               ELSE <<IF full THEN "id" ELSE "i", "=">> \o f["id"],
               IF "sm" \in v.lacks THEN <<>>
               ELSE <<IF full THEN "sm" ELSE "s", "=">> \o f["sm"],
               IF full /\ "date" \notin v.lacks THEN <<"date", "=">> \o f["date"] ELSE <<>>,
               IF full /\ "time" \notin v.lacks THEN <<"time", "=">> \o time ELSE <<>>,
               IF ~full /\ (v.lacks \cap {"date", "time"} = {} \/ v.style = "aliasBadT")
               THEN <<"t", "=">> \o LooseT(rc, v.style) ELSE <<>> >>
    IN (IF v.lead THEN <<"?">> ELSE <<>>) \o Join(NonEmptyPieces(pieces), <<v.sep>>)

\* texts that are no receipt at all: empty, blank, a missing value, malformed
\* URLs, a query string with a broken escape, a compact text cut short
OtherTexts ==
    { <<>>,
      <<" ">>,
      Null,
      <<"?">>,
      <<"https://">>,
      <<"https://", "?", "fn", "=", "4">>,
      <<"fn", "=", "%", "&", "&", "=", "&", "t", "=">>,
      <<"FN", "4", " ", "N">>,
      <<"j", "u", "s", "t", " ", "t", "e", "x", "t">>,
      <<"https://", "example.com", "/other", "?", "id", "=", "5">>,
      <<"https://", "cabinet.tax.gov.ua">> }

-----------------------------------------------------------------------------
(* The detection harness: getValidCheckUrl applied to scanned texts *)

DetInit ==
    /\ dPc = "start"
    /\ dRc \in Receipts
    /\ dKind = "none"
    /\ dLacks = {}
    /\ dIn = <<>>
    /\ dOut = Null
    /\ dIn2 = <<>>
    /\ dOut2 = Null
    /\ dBack = Null

DetectFirst(kind, lacks, text) ==
    /\ dPc = "start"
    /\ dPc' = "one"
    /\ dKind' = kind
    /\ dLacks' = lacks
    /\ dIn' = text
    /\ dOut' = getValidCheckUrl(text)
    /\ UNCHANGED <<dRc, dIn2, dOut2, dBack>>

DetectUrl == \E v \in UrlVariants : DetectFirst("url", v.lacks \cup v.empty, UrlText(dRc, v))

DetectShort == \E v \in ShortVariants : DetectFirst("short", v.lacks, ShortText(dRc, v))

DetectLoose == \E v \in LooseVariants : DetectFirst("loose", v.lacks, LooseText(dRc, v))

DetectOther == \E t \in OtherTexts : DetectFirst("other", FieldNames, t)

\* the same receipt is scanned again from its compact text
DetectTwin ==
    /\ dPc = "one"
    /\ \E v \in {w \in ShortVariants : w.lacks = {}} :
          /\ dIn2' = ShortText(dRc, v)
          /\ dOut2' = getValidCheckUrl(ShortText(dRc, v))
    /\ dPc' = "two"
    /\ UNCHANGED <<dRc, dKind, dLacks, dIn, dOut, dBack>>

\* the lookup URL is fed back into the detection
Redetect ==
    /\ dPc \in {"one", "two"}
    /\ dOut # Null
    /\ dBack' = getValidCheckUrl(dOut)
    /\ dPc' = "back"
    /\ UNCHANGED <<dRc, dKind, dLacks, dIn, dOut, dIn2, dOut2>>


-----------------------------------------------------------------------------
(* Properties of the detection *)

\* the fields the detection resolved from a scanned text: the search
\* parameters of a URL, else what parseCheckParams returned
ParamValue(params, k) ==
    LET i == CHOOSE j \in 1..Len(params) : params[j][1] = k IN params[i][2]

DetectedFields(raw) ==
    IF UrlParses(raw) THEN FieldsOf(raw)
    ELSE [k \in FieldNames |-> ParamValue(parseCheckParams(raw), k)]

IsDateShape(v) == IsDigits(v) /\ Len(v) = 8

IsTimeShape(v) == IsDigits(v) /\ Len(v) = 6

\* C2: a valid fiscal URL and the compact text carrying the same identifying
\* fields give the byte-identical lookup URL
C2_FormatIndependentUrl ==
    (/\ dPc = "two"
     /\ dKind = "url"
     /\ dOut # Null
     /\ FieldsOf(dOut) = CanonFields(dRc)
     /\ dOut2 # Null)
        => dOut = dOut2

\* C6: a text from which one of fn, id, sm, date, time cannot be resolved is
\* never classified as a fiscal receipt (the result is null)
C6_LackingFieldIsNull == (dPc # "start" /\ dLacks # {}) => dOut = Null

C6_Witness == dPc = "one" /\ dKind = "loose" /\ dLacks = {"sm"} /\ dOut = Null

\* C7: the lookup URL fed back into getValidCheckUrl is accepted, is returned
\* unchanged, and carries exactly the fields the detection had resolved
C7_RoundTrip ==
    dPc = "back" =>
        /\ dBack # Null
        /\ dBack = dOut
        /\ FieldsOf(dBack) = DetectedFields(dIn)

C7_Witness ==
    /\ dPc = "back"
    /\ dKind = "loose"
    /\ \E i \in 1..Len(dOut) : dOut[i] = "%3A"
    /\ dBack = dOut

\* C8 as stated: in every accepted form the date of the result is 8 digits and
\* the time 6 digits
C8_DateTimeShape ==
    (dPc # "start" /\ dOut # Null) =>
        /\ IsDateShape(FieldsOf(dOut)["date"])
        /\ IsTimeShape(FieldsOf(dOut)["time"])

\* the scanned text names date and time only through the t alias
OnlyTAlias(raw) ==
    /\ \E i \in 1..Len(raw) : raw[i] = "t"
    /\ \A i \in 1..Len(raw) : raw[i] \notin {"date", "time"}

\* C8 amended: for a compact text the date of the result is 8 digits and the
\* time 6 digits; for a loose query string whose date and time come from the t
\* alias the date is 8 digits and the time 4 or 6 digits
C8_DateTimeShapeAmended ==
    /\ (dKind = "short" /\ dOut # Null) =>
          /\ IsDateShape(FieldsOf(dOut)["date"])
          /\ IsTimeShape(FieldsOf(dOut)["time"])
    /\ (dKind = "loose" /\ dOut # Null /\ OnlyTAlias(dIn)) =>
          /\ IsDateShape(FieldsOf(dOut)["date"])
          /\ IsDigits(FieldsOf(dOut)["time"])
          /\ Len(FieldsOf(dOut)["time"]) \in {4, 6}

C8_Witness ==
    /\ dKind = "short"
    /\ dOut # Null
    /\ Len(dRc.day) = 1
    /\ Len(dRc.hh) = 1
    /\ IsDateShape(FieldsOf(dOut)["date"])

\* "FN1234567890 N987 =123,45 15.1.2026 15:30:00"
ExampleShort ==
    <<"FN", "1", "2", "3", "4", "5", "6", "7", "8", "9", "0", " ",
      "N", "9", "8", "7", " ", "=", "1", "2", "3", ",", "4", "5", " ",
      "1", "5", ".", "1", ".", "2", "0", "2", "6", " ",
      "1", "5", ":", "3", "0", ":", "0", "0">>

ExampleFields ==
    [k \in FieldNames |->
        CASE k = "fn"   -> <<"1", "2", "3", "4", "5", "6", "7", "8", "9", "0">>
          [] k = "id"   -> <<"9", "8", "7">>
          [] k = "sm"   -> <<"1", "2", "3", ".", "4", "5">>
          [] k = "date" -> <<"2", "0", "2", "6", "0", "1", "1", "5">>
          [] k = "time" -> <<"1", "5", "3", "0", "0", "0">>]

\* C22: from a compact text with all five parts the fields extracted are the
\* fiscal number and the sequence id as printed, the amount with a dot, the
\* date as year, month and day with month and day padded to 2 digits, and the
\* time as hour, minute and second padded to 2 digits, a trailing MAC token
\* being ignored; the example text yields the example fields
C22_CompactFields ==
    /\ (dPc # "start" /\ dKind = "short" /\ dLacks = {}) =>
          /\ parseShortTaxFormat(dIn) # <<>>
          /\ DetectedFields(dIn) = CanonFields(dRc)
    /\ dPc = "two" => DetectedFields(dIn2) = CanonFields(dRc)
    /\ dPc # "start" =>
          [k \in FieldNames |-> ParamValue(parseShortTaxFormat(ExampleShort), k)]
              = ExampleFields

\* a compact text with a one-digit day and hour, a decimal comma and a MAC token
C22_Witness ==
    /\ dPc = "one"
    /\ dKind = "short"
    /\ Len(dRc.day) = 1 /\ Len(dRc.hh) = 1
    /\ \E i \in 1..Len(dIn) : dIn[i] = ","
    /\ \E i \in 1..Len(dIn) : dIn[i] = "MAC="
    /\ DetectedFields(dIn)["sm"] = <<"1", "2", ".", "5", "0">>
    /\ DetectedFields(dIn)["time"] = <<"0", "9", "3", "0", "0", "7">>

\* the names of the query parameters of a URL, in their order
QueryNames(url) == [i \in 1..Len(UrlSearchParams(url)) |-> UrlSearchParams(url)[i][1]]

\* C23: the lookup URL of a text classified as a receipt is the https URL of
\* the check page whose query has exactly the parameters fn, id, sm, time, date
\* in that order
C23_FixedParamOrder ==
    (dPc # "start" /\ dOut # Null) =>
        /\ SubSeq(dOut, 1, 4) = CheckUrlPrefix
        /\ QueryNames(dOut) = << <<"fn">>, <<"id">>, <<"sm">>, <<"time">>, <<"date">> >>

\* a lookup URL: a URL of the fiscal authority's check page that carries all
\* five identifying fields
IsLookupUrl(u) ==
    /\ UrlParses(u)
    /\ UrlHostname(u) = "cabinet.tax.gov.ua"
    /\ UrlPathname(u) = "/cashregs/check"
    /\ \A k \in FieldNames : Truthy(FieldsOf(u)[k])

\* C21: getValidCheckUrl ends with no exception for every scanned text; its
\* result is null or a lookup URL, and it is null for a text that is no receipt
\* (empty, blank, missing, a malformed URL, a broken query string)
C21_NeverThrows ==
    /\ dPc # "start" =>
          /\ dOut # Thrown
          /\ dOut = Null \/ IsLookupUrl(dOut)
          /\ dKind = "other" => dOut = Null
    /\ dPc = "two" => dOut2 # Thrown /\ IsLookupUrl(dOut2)
    /\ dPc = "back" => dBack # Thrown

\* a malformed URL, on which new URL throws, was classified as no receipt
C21_Witness ==
    /\ dPc = "one"
    /\ dKind = "other"
    /\ dIn = <<"https://", "?", "fn", "=", "4">>
    /\ dOut = Null

-----------------------------------------------------------------------------
(* The scan history page: state.js, api.js, render.js, app.js *)

MaxInFlight == 2

MaxClicks == 4

MaxVisible == 10

InitVisibleCount == 5

pageSize == 5

\* the scanned texts that occur in the history: the fiscal URL of a receipt,
\* the compact text of the same receipt, and a plain text
Keys == {"u", "t", "p"}

TheReceipt ==
    [fn |-> <<"4", "0">>, id |-> <<"9", "8">>, smInt |-> <<"1", "2">>,
     smFrac |-> <<"5", "0">>, day |-> <<"5">>, month |-> <<"1">>,
     year |-> <<"2", "0", "2", "6">>, hh |-> <<"9">>, mm |-> <<"3", "0">>,
     ss |-> <<"0", "7">>]

\* scan.raw_text
RawOf ==
    [k \in Keys |->
        CASE k = "u" -> UrlText(TheReceipt, UrlBase)
          [] k = "t" -> ShortText(TheReceipt, ShortBase)
          [] OTHER   -> <<"j", "u", "s", "t", " ", "t", "e", "x", "t">>]

\* scan?.info?.url || getValidCheckUrl(key); info.url, where a row has it, is
\* the scanned URL itself
CheckUrlOf ==
    [k \in Keys |-> IF UrlParses(RawOf[k]) THEN RawOf[k] ELSE getValidCheckUrl(RawOf[k])]

\* the scan rows of the storage layer, newest first (created_at descending, the
\* ids rising with created_at); the oldest row is a second scan of the URL
ServerRows ==
    << [id |-> 6, key |-> "u"], [id |-> 5, key |-> "t"], [id |-> 4, key |-> "p"],
       [id |-> 3, key |-> "p"], [id |-> 2, key |-> "p"], [id |-> 1, key |-> "u"] >>

\* scan.info.check_status; an absent check_status reads as all false
NoStatus == [finding |-> FALSE, founded |-> FALSE, saved |-> FALSE, exists |-> FALSE]

pickDbStatus(scan) ==
    [founded |-> scan.cs.founded, saved |-> scan.cs.saved,
     finding |-> scan.cs.finding, exists |-> scan.cs.exists]

\* a checkCache entry: whether there is one, and whether its text is non-empty
NoCache == [present |-> FALSE, text |-> FALSE]

\* an async invocation suspended in fetch()
Call(op, key) ==
    [op |-> op, key |-> key, st |-> "req", append |-> FALSE, limit |-> 0, offset |-> 0,
     rows |-> <<>>]

HistCall(append, limit, offset) ==
    [op |-> "hist", key |-> "p", st |-> "req", append |-> append, limit |-> limit,
     offset |-> offset, rows |-> <<>>]

InFlight == DOMAIN calls

HasFree == BagCardinality(calls) < MaxInFlight

Send(call) == calls' = calls (+) SetToBag({call})

Resume(call) == calls (-) SetToBag({call})

Min(a, b) == IF a <= b THEN a ELSE b

Max(a, b) == IF a >= b THEN a ELSE b

\* Array.prototype.slice(0, n)
Slice(seq, n) == SubSeq(seq, 1, Min(n, Len(seq)))

VisibleKeys(ss) == {ss[i].key : i \in 1..Len(ss)}

HistInit ==
    /\ scans = <<>>
    /\ allScans = <<>>
    /\ visibleCount = InitVisibleCount
    /\ loadedCount = 0
    /\ hasMore = FALSE
    /\ findStatus = [k \in Keys |-> "none"]
    /\ saveStatus = [k \in Keys |-> "none"]
    /\ checkCache = [k \in Keys |-> NoCache]
    /\ selectedScan = "none"
    /\ calls = EmptyBag
    /\ db = [k \in Keys |-> NoStatus]
    /\ started = FALSE
    /\ histFresh = FALSE
    /\ clicks = 0

-----------------------------------------------------------------------------
(* The service behind /api/find_check and /api/save_check *)

\* /api/find_check: an error, a lookup that goes on in the background, or the
\* receipt, with or without a text
FindAnswers(k) ==
    {[kind |-> "fail", text |-> FALSE, saved |-> FALSE, db |-> db]}
    \cup (IF db[k].founded THEN {}
          ELSE {[kind |-> "finding", text |-> FALSE, saved |-> FALSE,
                 db |-> [db EXCEPT ![k].finding = TRUE]]})
    \cup {[kind |-> "found", text |-> text, saved |-> db[k].saved,
           db |-> [db EXCEPT ![k].finding = FALSE, ![k].founded = TRUE]] :
             text \in BOOLEAN}

\* /api/save_check: an error, or an answer with saved true or false
SaveAnswers(k) ==
    {[kind |-> "fail", saved |-> FALSE, db |-> db],
     [kind |-> "ok", saved |-> FALSE, db |-> db],
     [kind |-> "ok", saved |-> TRUE,
      db |-> [db EXCEPT ![k].saved = TRUE, ![k].founded = TRUE, ![k].finding = FALSE]]}

-----------------------------------------------------------------------------
(* api.js: findCheck *)

CanLookUp(scan) == ~pickDbStatus(scan).exists /\ CheckUrlOf[scan.key] # Null

\* lines 163-169: already founded, the details are shown again
FindCheckShow(i) ==
    /\ clicks < MaxClicks
    /\ clicks' = clicks + 1
    /\ i \in 1..Len(scans)
    /\ CanLookUp(scans[i])
    /\ findStatus[scans[i].key] = "founded"
    /\ selectedScan' = scans[i].key
    /\ histFresh' = FALSE
    /\ UNCHANGED <<scans, allScans, visibleCount, loadedCount, hasMore, findStatus,
                   saveStatus, checkCache, calls, db, started>>

\* lines 171-177: already saved, so treated as founded
FindCheckFromSaved(i) ==
    /\ clicks < MaxClicks
    /\ clicks' = clicks + 1
    /\ i \in 1..Len(scans)
    /\ CanLookUp(scans[i])
    /\ findStatus[scans[i].key] # "founded"
    /\ saveStatus[scans[i].key] = "saved"
    /\ findStatus' = [findStatus EXCEPT ![scans[i].key] = "founded"]
    /\ selectedScan' = scans[i].key
    /\ histFresh' = FALSE
    /\ UNCHANGED <<scans, allScans, visibleCount, loadedCount, hasMore, saveStatus,
                   checkCache, calls, db, started>>

\* lines 179-187: the status becomes loading and /api/find_check is requested
FindCheckStart(i) ==
    /\ clicks < MaxClicks
    /\ clicks' = clicks + 1
    /\ i \in 1..Len(scans)
    /\ CanLookUp(scans[i])
    /\ findStatus[scans[i].key] # "founded"
    /\ saveStatus[scans[i].key] # "saved"
    /\ HasFree
    /\ findStatus' = [findStatus EXCEPT ![scans[i].key] = "loading"]
    /\ Send(Call("find", scans[i].key))
    /\ histFresh' = FALSE
    /\ UNCHANGED <<scans, allScans, visibleCount, loadedCount, hasMore, saveStatus,
                   checkCache, selectedScan, db, started>>

\* lines 189-219: the continuation with the answer
FindCheckDone(c) ==
    /\ c \in InFlight /\ c.op = "find"
    /\ \E a \in FindAnswers(c.key) :
          /\ db' = a.db
          /\ CASE a.kind = "found" ->
                    /\ checkCache' = [checkCache EXCEPT ![c.key] =
                                         [present |-> TRUE, text |-> a.text]]
                    /\ findStatus' = [findStatus EXCEPT ![c.key] = "founded"]
                    /\ saveStatus' = IF a.saved THEN [saveStatus EXCEPT ![c.key] = "saved"]
                                     ELSE saveStatus
                    /\ selectedScan' = c.key
               [] a.kind = "finding" ->
                    /\ findStatus' = [findStatus EXCEPT ![c.key] = "loading"]
                    /\ UNCHANGED <<checkCache, saveStatus, selectedScan>>
               [] OTHER ->
                    /\ findStatus' = [findStatus EXCEPT ![c.key] = "failed"]
                    /\ UNCHANGED <<checkCache, saveStatus, selectedScan>>
    /\ calls' = Resume(c)
    /\ histFresh' = FALSE
    /\ UNCHANGED <<scans, allScans, visibleCount, loadedCount, hasMore, started, clicks>>

-----------------------------------------------------------------------------
(* api.js: saveCheck *)

CanSave(scan) ==
    /\ CheckUrlOf[scan.key] # Null
    /\ pickDbStatus(scan).founded
    /\ saveStatus[scan.key] \notin {"saved", "loading"}

\* cached?.text
HasText(k) == checkCache[k].present /\ checkCache[k].text

\* lines 236-243: no cached text, /api/find_check is requested first
SaveCheckFetch(i) ==
    /\ clicks < MaxClicks
    /\ clicks' = clicks + 1
    /\ i \in 1..Len(scans)
    /\ CanSave(scans[i])
    /\ ~HasText(scans[i].key)
    /\ HasFree
    /\ Send(Call("sfind", scans[i].key))
    /\ histFresh' = FALSE
    /\ UNCHANGED <<scans, allScans, visibleCount, loadedCount, hasMore, findStatus,
                   saveStatus, checkCache, selectedScan, db, started>>

\* lines 269-281: the text is cached, /api/save_check is requested
SaveCheckSend(i) ==
    /\ clicks < MaxClicks
    /\ clicks' = clicks + 1
    /\ i \in 1..Len(scans)
    /\ CanSave(scans[i])
    /\ HasText(scans[i].key)
    /\ HasFree
    /\ saveStatus' = [saveStatus EXCEPT ![scans[i].key] = "loading"]
    /\ Send(Call("save", scans[i].key))
    /\ histFresh' = FALSE
    /\ UNCHANGED <<scans, allScans, visibleCount, loadedCount, hasMore, findStatus,
                   checkCache, selectedScan, db, started>>

\* lines 244-281: the continuation with the answer of /api/find_check; with a
\* text in hand it goes on to request /api/save_check
SaveFindDone(c) ==
    /\ c \in InFlight /\ c.op = "sfind"
    /\ \E a \in FindAnswers(c.key) :
          /\ db' = a.db
          /\ CASE a.kind = "found" ->
                    /\ checkCache' = [checkCache EXCEPT ![c.key] =
                                         [present |-> TRUE, text |-> a.text]]
                    /\ findStatus' = [findStatus EXCEPT ![c.key] = "founded"]
                    /\ saveStatus' =
                          IF a.text THEN [saveStatus EXCEPT ![c.key] = "loading"]
                          ELSE IF a.saved THEN [saveStatus EXCEPT ![c.key] = "saved"]
                          ELSE saveStatus
                    /\ calls' = IF a.text
                                THEN Resume(c) (+) SetToBag({Call("save", c.key)})
                                ELSE Resume(c)
               [] a.kind = "finding" ->
                    /\ findStatus' = [findStatus EXCEPT ![c.key] = "loading"]
                    /\ calls' = Resume(c)
                    /\ UNCHANGED <<checkCache, saveStatus>>
               [] OTHER ->
                    /\ calls' = Resume(c)
                    /\ UNCHANGED <<checkCache, findStatus, saveStatus>>
    /\ histFresh' = FALSE
    /\ UNCHANGED <<scans, allScans, visibleCount, loadedCount, hasMore, selectedScan,
                   started, clicks>>

\* lines 283-306: the continuation with the answer of /api/save_check
SaveCheckDone(c) ==
    /\ c \in InFlight /\ c.op = "save"
    /\ \E a \in SaveAnswers(c.key) :
          /\ db' = a.db
          /\ IF a.kind = "fail"
             THEN /\ saveStatus' = [saveStatus EXCEPT ![c.key] = "failed"]
                  /\ UNCHANGED <<findStatus, checkCache, selectedScan>>
             ELSE /\ findStatus' = [findStatus EXCEPT ![c.key] = "founded"]
                  /\ saveStatus' = [saveStatus EXCEPT ![c.key] =
                                       IF a.saved THEN "saved" ELSE "loading"]
                  /\ checkCache' = [checkCache EXCEPT ![c.key] =
                                       [present |-> TRUE, text |-> TRUE]]
                  /\ selectedScan' = c.key
    /\ calls' = Resume(c)
    /\ histFresh' = FALSE
    /\ UNCHANGED <<scans, allScans, visibleCount, loadedCount, hasMore, started, clicks>>

-----------------------------------------------------------------------------
(* api.js: fetchHistory, mergeScans; app.js: the status polling; render.js: the
   load-more action of the history list *)

Ids(ss) == {ss[i].id : i \in 1..Len(ss)}

RowOf(ss, id) == ss[CHOOSE i \in 1..Len(ss) : ss[i].id = id]

MaxId(S) == CHOOSE x \in S : \A y \in S : y <= x

RECURSIVE SortDesc(_, _, _)
\* the rows with the ids of S, newest first, a row of `fresh` replacing the
\* row of `old` with the same id
SortDesc(S, old, fresh) ==
    IF S = {} THEN <<>>
    ELSE LET x == MaxId(S)
         IN <<IF x \in Ids(fresh) THEN RowOf(fresh, x) ELSE RowOf(old, x)>>
            \o SortDesc(S \ {x}, old, fresh)

\* mergeScans: state.allScans after the merge
mergeScans(rows) == SortDesc(Ids(allScans) \cup Ids(rows), allScans, rows)

RECURSIVE HydrateFindKeep(_, _)
\* a faulty variant: a find status is kept when the record says nothing
HydrateFindKeep(ss, fs) ==
    IF ss = <<>> THEN fs
    ELSE LET st == pickDbStatus(Head(ss))
         IN HydrateFindKeep(Tail(ss),
                [fs EXCEPT ![Head(ss).key] =
                    IF st.finding THEN "loading" ELSE IF st.founded THEN "founded" ELSE @])

RECURSIVE HydrateFind(_, _)
\* lines 55-62: findStatus follows the check_status of each visible scan in turn
HydrateFind(ss, fs) ==
    IF ss = <<>> THEN fs
    ELSE LET st == pickDbStatus(Head(ss))
         IN HydrateFind(Tail(ss),
                [fs EXCEPT ![Head(ss).key] =
                    IF st.finding THEN "loading" ELSE IF st.founded THEN "founded" ELSE "none"])

RECURSIVE HydrateSave(_, _)
\* lines 63-64: saveStatus becomes saved, or is dropped unless it is loading
HydrateSave(ss, sv) ==
    IF ss = <<>> THEN sv
    ELSE LET st == pickDbStatus(Head(ss))
         IN HydrateSave(Tail(ss),
                [sv EXCEPT ![Head(ss).key] =
                    IF st.saved THEN "saved" ELSE IF @ = "loading" THEN @ ELSE "none"])

\* lines 66-71: the entries of keys that are not visible are dropped
Prune(ss, m) == [k \in Keys |-> IF k \in VisibleKeys(ss) THEN m[k] ELSE "none"]

hasPending ==
    \/ \E k \in VisibleKeys(scans) : findStatus[k] = "loading" \/ saveStatus[k] = "loading"
    \/ \E i \in 1..Len(scans) : scans[i].cs.finding

\* telegram.js: initTelegram requests the first page
HistStart ==
    /\ ~started
    /\ HasFree
    /\ started' = TRUE
    /\ Send(HistCall(FALSE, visibleCount, 0))
    /\ histFresh' = FALSE
    /\ UNCHANGED <<scans, allScans, visibleCount, loadedCount, hasMore, findStatus,
                   saveStatus, checkCache, selectedScan, db, clicks>>

\* app.js: a tick of the polling timer with something pending
Poll ==
    /\ hasPending
    /\ HasFree
    /\ Send(HistCall(FALSE, visibleCount, 0))
    /\ histFresh' = FALSE
    /\ UNCHANGED <<scans, allScans, visibleCount, loadedCount, hasMore, findStatus,
                   saveStatus, checkCache, selectedScan, db, started, clicks>>

\* render.js: the load-more button, there when hasMore or rows are hidden
LoadMore ==
    /\ clicks < MaxClicks
    /\ clicks' = clicks + 1
    /\ hasMore \/ Len(allScans) > visibleCount
    /\ visibleCount + pageSize <= MaxVisible
    /\ visibleCount' = visibleCount + pageSize
    /\ IF visibleCount' > Len(allScans) /\ hasMore
       THEN /\ HasFree
            /\ Send(HistCall(TRUE, pageSize, loadedCount))
            /\ UNCHANGED scans
       ELSE /\ scans' = Slice(allScans, visibleCount')
            /\ UNCHANGED calls
    /\ histFresh' = FALSE
    /\ UNCHANGED <<allScans, loadedCount, hasMore, findStatus, saveStatus, checkCache,
                   selectedScan, db, started>>

\* /api/history answers with an error
SrvHistFail(c) ==
    /\ c \in InFlight /\ c.op = "hist" /\ c.st = "req"
    /\ calls' = Resume(c) (+) SetToBag({[c EXCEPT !.st = "fail"]})
    /\ histFresh' = FALSE
    /\ UNCHANGED <<scans, allScans, visibleCount, loadedCount, hasMore, findStatus,
                   saveStatus, checkCache, selectedScan, db, started, clicks>>

\* /api/history answers with the rows of the page, each with the check_status
\* of the moment
SrvHistRows(c, stored) ==
    /\ c \in InFlight /\ c.op = "hist" /\ c.st = "req"
    /\ LET page == SubSeq(stored, c.offset + 1, Min(c.offset + c.limit, Len(stored)))
           rows == [i \in 1..Len(page) |->
                       [id |-> page[i].id, key |-> page[i].key, cs |-> db[page[i].key]]]
       IN calls' = Resume(c) (+) SetToBag({[c EXCEPT !.st = "resp", !.rows = rows]})
    /\ histFresh' = FALSE
    /\ UNCHANGED <<scans, allScans, visibleCount, loadedCount, hasMore, findStatus,
                   saveStatus, checkCache, selectedScan, db, started, clicks>>

SrvHistOk(c) == SrvHistRows(c, ServerRows)

SrvHist(c) == SrvHistFail(c) \/ SrvHistOk(c)

\* a lookup that went on in the background ends
SrvBackground(k) ==
    /\ db[k].finding
    /\ db' = [db EXCEPT ![k].finding = FALSE, ![k].founded = TRUE]
    /\ histFresh' = FALSE
    /\ UNCHANGED <<scans, allScans, visibleCount, loadedCount, hasMore, findStatus,
                   saveStatus, checkCache, selectedScan, calls, started, clicks>>

\* fetchHistory, lines 47-82: the continuation with the answer
HistDone(c) ==
    /\ c \in InFlight /\ c.op = "hist" /\ c.st # "req"
    /\ IF c.st = "fail"
       THEN /\ histFresh' = FALSE
            /\ UNCHANGED <<scans, allScans, loadedCount, hasMore, findStatus, saveStatus>>
       ELSE /\ allScans' = mergeScans(c.rows)
            /\ scans' = Slice(allScans', visibleCount)
            /\ findStatus' = Prune(scans', HydrateFind(scans', findStatus))
            /\ saveStatus' = Prune(scans', HydrateSave(scans', saveStatus))
            /\ IF c.append
               THEN /\ loadedCount' = loadedCount + Len(c.rows)
                    /\ hasMore' = (Len(c.rows) = c.limit)
               ELSE /\ loadedCount' = IF c.offset = 0 THEN Max(loadedCount, Len(c.rows))
                                      ELSE loadedCount
                    /\ hasMore' = (Len(c.rows) = c.limit \/ Len(allScans') > visibleCount)
            /\ histFresh' = TRUE
    /\ calls' = Resume(c)
    /\ UNCHANGED <<visibleCount, checkCache, selectedScan, db, started, clicks>>

-----------------------------------------------------------------------------
(* Properties of the scan history page *)

\* two scanned texts that encode the same receipt
SameReceipt(j, k) ==
    /\ CheckUrlOf[j] # Null
    /\ CheckUrlOf[k] # Null
    /\ FieldsOf(CheckUrlOf[j]) = FieldsOf(CheckUrlOf[k])

\* C3: two visible scans of the same receipt, whatever their encodings, share
\* one checkCache entry and one findStatus and saveStatus entry
C3_OneEntryPerReceipt ==
    \A i, j \in 1..Len(scans) :
        SameReceipt(scans[i].key, scans[j].key) =>
            /\ checkCache[scans[i].key] = checkCache[scans[j].key]
            /\ findStatus[scans[i].key] = findStatus[scans[j].key]
            /\ saveStatus[scans[i].key] = saveStatus[scans[j].key]

\* the /api/find_check requests in flight for a key, from findCheck and saveCheck
FindsInFlight(k) == CopiesIn(Call("find", k), calls) + CopiesIn(Call("sfind", k), calls)

\* C4: at most one /api/find_check request per key is in flight at any time
C4_OneFindInFlight == \A k \in Keys : FindsInFlight(k) <= 1

\* what a check_status says about the find and the save status
FindOf(cs) == IF cs.finding THEN "loading" ELSE IF cs.founded THEN "founded" ELSE "none"

SaveOf(cs) == IF cs.saved THEN "saved" ELSE "none"

\* C9 as stated: after a completed fetchHistory the statuses of every visible
\* scan are exactly what the check_status of that scan says
C9_StatusesFollowRecord ==
    histFresh =>
        \A i \in 1..Len(scans) :
            /\ findStatus[scans[i].key] = FindOf(scans[i].cs)
            /\ saveStatus[scans[i].key] = SaveOf(scans[i].cs)

LastVisible(k) == scans[CHOOSE i \in 1..Len(scans) :
                          /\ scans[i].key = k
                          /\ \A j \in (i + 1)..Len(scans) : scans[j].key # k]

\* C9 amended: after a completed fetchHistory the find status of a visible key
\* is what the check_status of the last visible scan with that key says; the
\* save status is saved when that check_status says so and is otherwise absent,
\* except that a local loading is kept while no visible scan of the key is
\* saved; the keys of no visible scan have no entry
C9_StatusesFollowRecordAmended ==
    histFresh =>
        \A k \in Keys :
            IF k \in VisibleKeys(scans)
            THEN /\ findStatus[k] = FindOf(LastVisible(k).cs)
                 /\ saveStatus[k] \in {SaveOf(LastVisible(k).cs), "loading"}
                 /\ saveStatus[k] = "loading" =>
                       \A i \in 1..Len(scans) : scans[i].key = k => ~scans[i].cs.saved
            ELSE findStatus[k] = "none" /\ saveStatus[k] = "none"

C9_Witness ==
    /\ histFresh
    /\ \E i \in 1..Len(scans) :
          /\ scans[i].cs.founded
          /\ ~scans[i].cs.saved
          /\ findStatus[scans[i].key] = "founded"
          /\ saveStatus[scans[i].key] = "loading"

\* C10: once the result of a find_check is held in checkCache, no step sends
\* another /api/find_check request for that key
C10_NoFindOnceCached ==
    [][\A k \in Keys : checkCache[k].present => FindsInFlight(k)' <= FindsInFlight(k)]_vars

\* the lookup of a visible key is pending: /api/find_check has answered that
\* the receipt is not yet there, and the key is loading
FindPending(k) ==
    /\ k \in VisibleKeys(scans)
    /\ findStatus[k] = "loading"
    /\ db[k].finding \/ db[k].founded

\* C11: a key that is loading after /api/find_check answered finding becomes
\* founded once the record is founded, by the status polling alone, unless the
\* user acts in between
C11_PendingBecomesFounded ==
    \A k \in Keys, n \in 0..MaxClicks :
        (FindPending(k) /\ clicks = n) ~> (findStatus[k] = "founded" \/ clicks # n)

\* C12: a save status that is saved stays saved in every step
C12_SavedIsTerminal ==
    [][\A k \in Keys : saveStatus[k] = "saved" => saveStatus'[k] = "saved"]_vars

\* findCheck on a visible scan of the key gets as far as its request
FindRetry(k) == \E i \in 1..Len(scans) : scans[i].key = k /\ FindCheckStart(i)

\* saveCheck on a visible scan of the key gets as far as /api/save_check
SaveRetry(k) == \E i \in 1..Len(scans) : scans[i].key = k /\ SaveCheckSend(i)

\* the user can act and a request can be made
CanClick == clicks < MaxClicks /\ HasFree

\* C13: from a find status failed a findCheck on a scan of the key requests
\* /api/find_check, and from a save status failed a saveCheck on a scan of the
\* key requests /api/save_check
C13_FailedIsRetryable ==
    \A k \in Keys :
        /\ findStatus[k] = "failed" /\ CanClick => ENABLED FindRetry(k)
        /\ saveStatus[k] = "failed" /\ CanClick => ENABLED SaveRetry(k)

\* C20: the continuation of an /api/find_check request that leaves the key
\* without a cached receipt and not loading, which is that of a failed request,
\* leaves the find status failed and the cache as it was; the continuation of an
\* /api/save_check request that leaves the key neither saved nor loading leaves
\* the save status failed and the cache as it was
C20_FailureIsSurfaced ==
    [][\A c \in InFlight :
          /\ ((FindCheckDone(c) \/ SaveFindDone(c))
                 /\ ~checkCache'[c.key].present /\ findStatus'[c.key] # "loading")
                => findStatus'[c.key] = "failed" /\ checkCache' = checkCache
          /\ (SaveCheckDone(c) /\ saveStatus'[c.key] \notin {"saved", "loading"})
                => saveStatus'[c.key] = "failed" /\ checkCache' = checkCache]_vars

\* the /api/save_check requests in flight for a key
SavesInFlight(k) == CopiesIn(Call("save", k), calls)

\* C26: at most one /api/save_check request per key is in flight at any time
C26_OneSaveInFlight == \A k \in Keys : SavesInFlight(k) <= 1

\* renderHistory, lines 36-41: the statuses the menu of a row is built from
findSt(scan) ==
    IF findStatus[scan.key] # "none" THEN findStatus[scan.key] ELSE FindOf(scan.cs)

saveSt(scan) ==
    IF saveStatus[scan.key] # "none" THEN saveStatus[scan.key] ELSE SaveOf(scan.cs)

\* generateMenuItems, lines 196-234: the Save item of the row is not disabled
SaveEnabled(scan) ==
    /\ CheckUrlOf[scan.key] # Null
    /\ CASE saveSt(scan) = "loading" -> FALSE
         [] saveSt(scan) = "saved"   -> FALSE
         [] saveSt(scan) = "failed"  -> TRUE
         [] OTHER -> findSt(scan) = "founded" /\ saveSt(scan) # "saved"

\* saveCheck on the row gets as far as a request
SaveRequests(i) == SaveCheckFetch(i) \/ SaveCheckSend(i)

\* C27: when the menu of a row offers Save as enabled with the find status
\* founded, a saveCheck on that row sends /api/save_check or /api/find_check
C27_OfferedSaveSends ==
    \A i \in 1..Len(scans) :
        (SaveEnabled(scans[i]) /\ findSt(scans[i]) = "founded" /\ CanClick)
            => ENABLED SaveRequests(i)

\* C30: a row shown as saved, or as being saved, is shown as found: its find
\* status is 'founded', in the status maps and on the row as rendered
C30_SavedImpliesFounded ==
    /\ \A k \in Keys : saveStatus[k] \in {"saved", "loading"} => findStatus[k] = "founded"
    /\ \A i \in 1..Len(scans) :
           saveSt(scans[i]) \in {"saved", "loading"} => findSt(scans[i]) = "founded"

-----------------------------------------------------------------------------
(* The history list with its delete action (render.js) and the submitScan and
   upsertScan of api.js *)

\* Array.prototype.splice(index, 1)
Splice(ss, i) == SubSeq(ss, 1, i - 1) \o SubSeq(ss, i + 1, Len(ss))

\* render.js lines 148-162: the delete action of a row
Delete(i) ==
    /\ clicks < MaxClicks
    /\ clicks' = clicks + 1
    /\ i \in 1..Len(scans)
    /\ scans' = Splice(scans, i)
    /\ selectedScan' = IF selectedScan # "none" /\ selectedScan \notin VisibleKeys(scans')
                       THEN "none" ELSE selectedScan
    /\ deleted' = deleted \cup {scans[i].id}
    /\ histFresh' = FALSE
    /\ UNCHANGED <<allScans, visibleCount, loadedCount, hasMore, findStatus, saveStatus,
                   checkCache, calls, db, started>>

\* the row the storage layer creates for a text that is scanned now
NewRow == [id |-> 7, key |-> "p"]

\* the storage layer holds the new row: its answer is under way or has arrived
HasNewRow ==
    \/ \E c \in InFlight : c.op = "scan" /\ c.st = "resp"
    \/ NewRow.id \in Ids(allScans)

\* the rows of the storage layer, newest first
StoredRows == IF HasNewRow THEN <<NewRow>> \o ServerRows ELSE ServerRows

SrvHistStored(c) == SrvHistRows(c, StoredRows)

\* submitScan, lines 84-104: a text is scanned and /api/scan is requested
SubmitScanStart ==
    /\ clicks < MaxClicks
    /\ clicks' = clicks + 1
    /\ started
    /\ ~HasNewRow
    /\ HasFree
    /\ Send(Call("scan", NewRow.key))
    /\ histFresh' = FALSE
    /\ UNCHANGED <<scans, allScans, visibleCount, loadedCount, hasMore, findStatus,
                   saveStatus, checkCache, selectedScan, db, started>>

\* /api/scan stores the scan, or fails
SrvScan(c) ==
    /\ c \in InFlight /\ c.op = "scan" /\ c.st = "req"
    /\ \E st \in {"resp", "fail"} : calls' = Resume(c) (+) SetToBag({[c EXCEPT !.st = st]})
    /\ histFresh' = FALSE
    /\ UNCHANGED <<scans, allScans, visibleCount, loadedCount, hasMore, findStatus,
                   saveStatus, checkCache, selectedScan, db, started, clicks>>

\* upsertScan, lines 141-149: state.allScans with the scan put in
upsertScan(scan) == SortDesc(Ids(allScans) \cup {scan.id}, allScans, <<scan>>)

\* submitScan, lines 105-121: the continuation with the answer of /api/scan
SubmitScanUpsert(c) ==
    /\ c \in InFlight /\ c.op = "scan" /\ c.st # "req"
    /\ calls' = Resume(c)
    /\ IF c.st = "resp"
       THEN /\ allScans' = upsertScan([id |-> NewRow.id, key |-> c.key, cs |-> db[c.key]])
            /\ scans' = Slice(allScans', visibleCount)
            /\ selectedScan' = c.key
       ELSE UNCHANGED <<scans, allScans, selectedScan>>
    /\ histFresh' = FALSE
    /\ UNCHANGED <<visibleCount, loadedCount, hasMore, findStatus, saveStatus, checkCache,
                   db, started, clicks>>

\* the key of the scan with an id
KeyOfId(id) == IF id = NewRow.id THEN NewRow.key ELSE RowOf(ServerRows, id).key

\* a scan with the key has been deleted by the user
KeyDeleted(k) == \E id \in deleted : KeyOfId(id) = k

\* the key loses an entry of checkCache, findStatus or saveStatus in the step
EntryRemoved(k) ==
    \/ findStatus[k] # "none" /\ findStatus'[k] = "none"
    \/ saveStatus[k] # "none" /\ saveStatus'[k] = "none"
    \/ checkCache[k].present /\ ~checkCache'[k].present

\* C25: a key loses its checkCache, findStatus or saveStatus entry only when
\* the user has deleted a scan of that key
C25_RemovedOnlyByDelete == [][\A k \in Keys : EntryRemoved(k) => KeyDeleted(k)']_vars

\* C29: a scan that the user has deleted is not in the visible list again
C29_DeletedStaysGone == \A id \in deleted : id \notin Ids(scans)

-----------------------------------------------------------------------------
(* The details panel: showDetails and extractCheckId of render.js,
   fetchCheckParsed and fetchCheckRaw of api.js *)

\* the scans whose details are shown: two receipts of different fiscal devices
\* with the same sequence id, a receipt with another id, and a plain text
DetailKeys == {"a", "b", "c", "q"}

DetailReceipt ==
    [k \in DetailKeys |->
        CASE k = "b" -> [TheReceipt EXCEPT !.fn = <<"4", "1">>, !.day = <<"1", "5">>]
          [] k = "c" -> [TheReceipt EXCEPT !.id = <<"7">>]
          [] OTHER   -> TheReceipt]

\* scan.raw_text: a fiscal URL, a compact text, a fiscal URL, a plain text
DetailRaw ==
    [k \in DetailKeys |->
        CASE k = "a" -> UrlText(DetailReceipt[k], UrlBase)
          [] k = "b" -> ShortText(DetailReceipt[k], ShortBase)
          [] k = "c" -> UrlText(DetailReceipt[k], UrlBase)
          [] OTHER   -> <<"j", "u", "s", "t", " ", "t", "e", "x", "t">>]

\* pickDbStatus(scan) of the rows: the receipts are founded and saved
DetailStatus ==
    [k \in DetailKeys |->
        IF k = "q" THEN NoStatus ELSE [NoStatus EXCEPT !.founded = TRUE, !.saved = TRUE]]

\* the placeholder shown for a scan without a check id
Dash == <<"-">>

\* extractCheckId, render.js lines 332-340
extractCheckId(checkUrl) ==
    IF ~Truthy(checkUrl) THEN Null
    ELSE IF ~UrlParses(checkUrl) THEN Null
    ELSE SearchGet(UrlSearchParams(checkUrl), "id")

\* lines 259-262: info.check_id || extractCheckId(displayUrl) || "-", where
\* displayUrl is info.url || getValidCheckUrl(raw_text) || "", for rows whose
\* info carries neither a URL nor a check id
DetailCheckId ==
    [k \in DetailKeys |->
        LET derivedUrl == getValidCheckUrl(DetailRaw[k])
            displayUrl == OrElse(derivedUrl, <<>>)
        IN OrElse(extractCheckId(displayUrl), Dash)]

\* the rows do not change while the panel is used, nor does what is derived
\* from them
detailCheckId(k) == detailId[k]

DetailIds == {DetailCheckId[k] : k \in DetailKeys} \ {Dash}

DetailsInit ==
    /\ checkParsed = [id \in DetailIds |-> "none"]
    /\ checkRaw = [id \in DetailIds |-> "none"]
    /\ parsedStore = [id \in DetailIds |-> "none"]
    /\ shownParsed = "none"
    /\ shownRaw = "none"
    /\ detailId = DetailCheckId

detailsRest ==
    <<scans, allScans, visibleCount, loadedCount, hasMore, findStatus, saveStatus,
      checkCache, db, started, histFresh, clicks, detailId>>

\* resolveParsed: the summary held in memory, else the one of localStorage
resolveParsed(parsed, checkId) ==
    IF parsed # "none" THEN parsed
    ELSE IF checkId = Dash THEN "none"
    ELSE parsedStore[checkId]

\* showDetails, render.js lines 248-330, with the caches as they are when it
\* runs: the content held under the check id of the scan is shown
showDetails(k, parsedMap, rawMap) ==
    LET checkId == detailCheckId(k)
        parsedSummary == IF checkId # Dash THEN parsedMap[checkId] ELSE "none"
        rawXml == IF checkId # Dash THEN rawMap[checkId] ELSE "none"
        cachedParsed == resolveParsed(parsedSummary, checkId)
    IN /\ selectedScan' = k
       /\ checkParsed' = IF cachedParsed # "none" /\ checkId # Dash
                         THEN [parsedMap EXCEPT ![checkId] = cachedParsed]
                         ELSE parsedMap
       /\ checkRaw' = rawMap
       /\ shownParsed' = cachedParsed
       /\ shownRaw' = IF cachedParsed # "none" /\ DetailStatus[k].founded
                      THEN rawXml ELSE "none"

\* the view action of a row of the history list
ViewDetails(k) ==
    /\ showDetails(k, checkParsed, checkRaw)
    /\ UNCHANGED <<parsedStore, calls, detailsRest>>

\* the Load check content button of the panel
LoadCheck(k) ==
    /\ selectedScan = k
    /\ detailCheckId(k) # Dash
    /\ shownParsed = "none"
    /\ DetailStatus[k].founded /\ DetailStatus[k].saved
    /\ HasFree
    /\ Send(Call("parsed", k))
    /\ UNCHANGED <<selectedScan, detailVars, detailsRest>>

\* the Load raw data button of the panel
LoadRaw(k) ==
    /\ selectedScan = k
    /\ detailCheckId(k) # Dash
    /\ shownParsed # "none"
    /\ DetailStatus[k].founded
    /\ shownRaw = "none"
    /\ HasFree
    /\ Send(Call("raw", k))
    /\ UNCHANGED <<selectedScan, detailVars, detailsRest>>

\* fetchCheckParsed and the click handler after it: the summary of the receipt
\* the request was made for is stored under the check id, in localStorage too
\* unless setItem fails, and the details of the scan are shown again; or there
\* is no summary
ParsedDone(c) ==
    /\ c \in InFlight /\ c.op = "parsed"
    /\ calls' = Resume(c)
    /\ \/ /\ \E stored \in BOOLEAN :
                parsedStore' = IF stored
                               THEN [parsedStore EXCEPT ![detailCheckId(c.key)] = c.key]
                               ELSE parsedStore
          /\ showDetails(c.key, [checkParsed EXCEPT ![detailCheckId(c.key)] = c.key],
                         checkRaw)
       \/ UNCHANGED <<selectedScan, detailVars>>
    /\ UNCHANGED detailsRest

\* fetchCheckRaw and the click handler after it: the document, an empty
\* document, or a failure
RawDone(c) ==
    /\ c \in InFlight /\ c.op = "raw"
    /\ calls' = Resume(c)
    /\ \/ showDetails(c.key, checkParsed, [checkRaw EXCEPT ![detailCheckId(c.key)] = c.key])
       \/ showDetails(c.key, checkParsed, checkRaw)
       \/ UNCHANGED <<selectedScan, checkParsed, checkRaw, shownParsed, shownRaw>>
    /\ UNCHANGED <<parsedStore, detailsRest>>

\* the page is loaded again: state.js starts empty, localStorage is kept
Reload ==
    /\ selectedScan' = "none"
    /\ calls' = EmptyBag
    /\ checkParsed' = [id \in DOMAIN checkParsed |-> "none"]
    /\ checkRaw' = [id \in DOMAIN checkRaw |-> "none"]
    /\ shownParsed' = "none"
    /\ shownRaw' = "none"
    /\ UNCHANGED <<parsedStore, detailsRest>>

\* the identifying fields of the receipt of each scan
DetailFieldsOf ==
    [k \in DetailKeys \ {"q"} |-> FieldsOf(getValidCheckUrl(DetailRaw[k]))]

DetailFields(k) == DetailFieldsOf[k]

\* C24: the parsed summary and the raw document shown for a scan were loaded
\* for a receipt with the same identifying fields, also when another receipt
\* has the same sequence id
C24_NoSharedContent ==
    /\ shownParsed # "none" => DetailFields(shownParsed) = DetailFields(selectedScan)
    /\ shownRaw # "none" => DetailFields(shownRaw) = DetailFields(selectedScan)

-----------------------------------------------------------------------------
(* The scanner entry point of the web page: telegram.js, with submitScan of the
   api.js it imports and the continuous-scan toggle of app.js *)

DebounceMs == 2000

Tick == 1000

MaxTicks == 3

Never == 0 - DebounceMs

\* the texts the scanner delivers: the fiscal URL and a plain text
TgTexts == {"u", "p"}

PlatformInit == now = 0 /\ popupOpen = FALSE

TgInit ==
    /\ lastText = "null"
    /\ lastTextAt = 0
    /\ continuousScan = FALSE
    /\ delivered = [t \in TgTexts |-> Never]
    /\ lastDelivery = [text |-> "null", at |-> 0, before |-> Never, accepted |-> FALSE]

histRest ==
    <<allScans, visibleCount, loadedCount, hasMore, findStatus, saveStatus, checkCache,
      db, started, histFresh, clicks>>

\* time passes
TickClock ==
    /\ now < MaxTicks * Tick
    /\ now' = now + Tick
    /\ UNCHANGED popupOpen

\* app.js: a click on the continuous-scan toggle
ToggleContinuous ==
    /\ continuousScan' = ~continuousScan
    /\ UNCHANGED <<lastText, lastTextAt, delivered, lastDelivery, platformVars, histVars>>

\* telegram.js: a click on the scan button opens the popup
ScanButton ==
    /\ ~popupOpen
    /\ popupOpen' = TRUE
    /\ UNCHANGED <<now, tgVars, histVars>>

\* the user closes the popup
TgPopupClosed ==
    /\ popupOpen
    /\ popupOpen' = FALSE
    /\ UNCHANGED <<now, tgVars, histVars>>

TgSuppressed(rawText) ==
    continuousScan /\ rawText = lastText /\ now - lastTextAt < DebounceMs

\* telegram.js, handleQrText: the qrTextReceived event of an open popup
TgHandleQrText(rawText) ==
    /\ popupOpen
    /\ HasFree
    /\ delivered' = [delivered EXCEPT ![rawText] = now]
    /\ lastDelivery' = [text |-> rawText, at |-> now, before |-> delivered[rawText],
                        accepted |-> ~TgSuppressed(rawText)]
    /\ IF TgSuppressed(rawText)
       THEN UNCHANGED <<lastText, lastTextAt, calls, popupOpen>>
       ELSE /\ lastText' = rawText
            /\ lastTextAt' = now
            /\ Send(Call("scan", rawText))
            /\ popupOpen' = continuousScan
    /\ UNCHANGED <<now, continuousScan, scans, selectedScan, histRest>>

RECURSIVE Without(_, _)
\* state.scans.filter((s) => s.raw_text !== scan.raw_text)
Without(ss, k) ==
    IF ss = <<>> THEN <<>>
    ELSE (IF Head(ss).key = k THEN <<>> ELSE <<Head(ss)>>) \o Without(Tail(ss), k)

\* submitScan: the continuation with the answer of /api/scan
SubmitScanDone(c) ==
    /\ c \in InFlight /\ c.op = "scan"
    /\ calls' = Resume(c)
    /\ \/ /\ scans' = <<[id |-> 0, key |-> c.key, cs |-> NoStatus]>> \o Without(scans, c.key)
          /\ selectedScan' = c.key
       \/ UNCHANGED <<scans, selectedScan>>
    /\ UNCHANGED <<platformVars, tgVars, histRest>>

-----------------------------------------------------------------------------
(* The scan screen: ScanQRScreen.tsx *)

\* the expenses there are for a check id when the screen is entered
MaxExisting == 2

\* the texts the scanner delivers: two receipts and a plain text
ScreenTexts == {"a", "b", "p"}

\* info.check_id || info.id of the stored scan; a plain text has none
CheckIdOf == [t \in ScreenTexts |-> CASE t = "a" -> "7" [] t = "b" -> "98" [] OTHER -> ""]

CheckIds == {"7", "98"}

NoResult == [rawText |-> "", checkId |-> ""]

NoScan == [text |-> "", at |-> 0]

NoSent == [checkId |-> "", confirm |-> FALSE, after409 |-> FALSE]

ScanRequest(rawText) == [op |-> "scan", rawText |-> rawText, checkId |-> "", confirm |-> FALSE]

\* buildExpensePayload
ExpenseRequest(confirmDuplicate) ==
    [op |-> "expense", rawText |-> "", checkId |-> scanResult.checkId,
     confirm |-> confirmDuplicate]

Pending == DOMAIN requests

CanRequest == BagCardinality(requests) < MaxInFlight

\* the state after the component has mounted: the auto-start effect has run
\* handleScan
ScreenInit ==
    /\ scanStatus = "scanning"
    /\ scanResult = NoResult
    /\ error = ""
    /\ savingExpense = FALSE
    /\ showDuplicatePrompt = FALSE
    /\ duplicateCount = 0
    /\ lastScanRef = NoScan
    /\ left = FALSE
    /\ requests = EmptyBag
    /\ existing \in [CheckIds -> 0..MaxExisting]
    /\ answered409 = {}
    /\ lastSent = NoSent

ScreenPlatformInit == now = 0 /\ popupOpen = TRUE

hasSuccess == scanStatus = "success" /\ scanResult # NoResult

isBusy == scanStatus \in {"scanning", "saving"}

\* line 62
Debounced(rawText) ==
    lastScanRef # NoScan /\ lastScanRef.text = rawText /\ now - lastScanRef.at < DebounceMs

\* handleQrText, lines 58-71: the qrTextReceived event of the open popup
HandleQrText(rawText) ==
    /\ ~left
    /\ popupOpen
    /\ CanRequest
    /\ IF Debounced(rawText)
       THEN UNCHANGED <<scanStatus, error, lastScanRef, requests>>
       ELSE /\ lastScanRef' = [text |-> rawText, at |-> now]
            /\ scanStatus' = "saving"
            /\ error' = ""
            /\ requests' = requests (+) SetToBag({ScanRequest(rawText)})
    /\ UNCHANGED <<scanResult, savingExpense, showDuplicatePrompt, duplicateCount, left,
                   existing, answered409, lastSent, platformVars>>

\* handleQrText, lines 72-92: the continuation with the answer of /api/scan; the
\* state updates of a component that has unmounted are dropped
ScanStored(r) ==
    /\ r \in Pending /\ r.op = "scan"
    /\ requests' = requests (-) SetToBag({r})
    /\ popupOpen' = FALSE
    /\ \/ IF left THEN UNCHANGED <<scanResult, scanStatus, error>>
          ELSE /\ scanResult' = [rawText |-> r.rawText, checkId |-> CheckIdOf[r.rawText]]
               /\ scanStatus' = "success"
               /\ UNCHANGED error
       \/ IF left THEN UNCHANGED <<scanResult, scanStatus, error>>
          ELSE /\ error' = "Failed to store scan."
               /\ scanStatus' = "error"
               /\ UNCHANGED scanResult
    /\ UNCHANGED <<now, savingExpense, showDuplicatePrompt, duplicateCount, lastScanRef,
                   left, existing, answered409, lastSent>>

\* a faulty variant: the request is sent whether there is a check id or not
saveExpenseUnchecked(confirmDuplicate) ==
    /\ savingExpense' = TRUE
    /\ error' = ""
    /\ requests' = requests (+) SetToBag({ExpenseRequest(confirmDuplicate)})
    /\ lastSent' = [checkId |-> scanResult.checkId, confirm |-> confirmDuplicate,
                    after409 |-> scanResult.checkId \in answered409]

\* saveExpense, lines 116-131: up to the request
saveExpense(confirmDuplicate) ==
    IF scanResult.checkId = ""
    THEN /\ error' = "Missing check ID."
         /\ UNCHANGED <<savingExpense, requests, lastSent>>
    ELSE /\ savingExpense' = TRUE
         /\ error' = ""
         /\ requests' = requests (+) SetToBag({ExpenseRequest(confirmDuplicate)})
         /\ lastSent' = [checkId |-> scanResult.checkId, confirm |-> confirmDuplicate,
                         after409 |-> scanResult.checkId \in answered409]

\* handleConfirm: the Add Expense button of the result
HandleConfirm ==
    /\ ~left
    /\ hasSuccess
    /\ ~savingExpense
    /\ CanRequest
    /\ saveExpense(FALSE)
    /\ UNCHANGED <<scanStatus, scanResult, showDuplicatePrompt, duplicateCount, lastScanRef,
                   left, existing, answered409, platformVars>>

\* handleConfirmDuplicate: the yes button of the duplicate prompt
HandleConfirmDuplicate ==
    /\ ~left
    /\ showDuplicatePrompt
    /\ CanRequest
    /\ showDuplicatePrompt' = FALSE
    /\ saveExpense(TRUE)
    /\ UNCHANGED <<scanStatus, scanResult, duplicateCount, lastScanRef, left, existing,
                   answered409, platformVars>>

\* line 389: the no button of the duplicate prompt
DeclineDuplicate ==
    /\ ~left
    /\ showDuplicatePrompt
    /\ showDuplicatePrompt' = FALSE
    /\ UNCHANGED <<scanStatus, scanResult, error, savingExpense, duplicateCount, lastScanRef,
                   left, requests, existing, answered409, lastSent, platformVars>>

\* handleScanAgain, followed by the auto-start effect, which runs handleScan
HandleScanAgain ==
    /\ ~left
    /\ hasSuccess
    /\ scanResult' = NoResult
    /\ error' = ""
    /\ scanStatus' = "scanning"
    /\ showDuplicatePrompt' = FALSE
    /\ duplicateCount' = 0
    /\ popupOpen' = TRUE
    /\ UNCHANGED <<now, savingExpense, lastScanRef, left, requests, existing, answered409,
                   lastSent>>

\* handleScan: the Try Again button under an error
HandleScan ==
    /\ ~left
    /\ ~hasSuccess
    /\ error # ""
    /\ ~isBusy
    /\ error' = ""
    /\ scanStatus' = "scanning"
    /\ popupOpen' = TRUE
    /\ UNCHANGED <<now, scanResult, savingExpense, showDuplicatePrompt, duplicateCount,
                   lastScanRef, left, requests, existing, answered409, lastSent>>

\* closedHandler: the user closes the popup
PopupClosed ==
    /\ popupOpen
    /\ popupOpen' = FALSE
    /\ IF ~left /\ scanStatus = "scanning"
       THEN /\ scanStatus' = "idle"
            /\ left' = (scanResult = NoResult)
       ELSE UNCHANGED <<scanStatus, left>>
    /\ UNCHANGED <<now, scanResult, error, savingExpense, showDuplicatePrompt,
                   duplicateCount, lastScanRef, requests, existing, answered409, lastSent>>

\* the back button of the header, or Enter Manually
Back ==
    /\ ~left
    /\ left' = TRUE
    /\ UNCHANGED <<scanStatus, scanResult, error, savingExpense, showDuplicatePrompt,
                   duplicateCount, lastScanRef, requests, existing, answered409, lastSent,
                   platformVars>>

\* /api/expense: an error, a conflict that reports the number of expenses there
\* are for the check id, or the expense created
ExpenseAnswers(r) ==
    {[kind |-> "error", existing |-> existing, count |-> 0]}
    \cup (IF existing[r.checkId] > 0 /\ ~r.confirm
          THEN {[kind |-> "409", existing |-> existing, count |-> existing[r.checkId]]}
          ELSE {[kind |-> "ok", existing |-> [existing EXCEPT ![r.checkId] = @ + 1],
                 count |-> 0]})

\* a faulty variant: the prompt always tells of one expense
duplicateCountOne(a) == 1

\* line 135: body.detail.existing_count
duplicateCountOf(a) == a.count

\* saveExpense, lines 133-151, and the then() of its caller: the continuation
\* with the answer of /api/expense
ExpenseAnswered(r) ==
    /\ r \in Pending /\ r.op = "expense"
    /\ requests' = requests (-) SetToBag({r})
    /\ \E a \in ExpenseAnswers(r) :
          /\ existing' = a.existing
          /\ answered409' = IF a.kind = "409" THEN answered409 \cup {r.checkId}
                            ELSE answered409
          /\ IF left
             THEN UNCHANGED <<scanStatus, scanResult, error, savingExpense,
                              showDuplicatePrompt, duplicateCount, left>>
             ELSE CASE a.kind = "409" ->
                         /\ duplicateCount' = duplicateCountOf(a)
                         /\ showDuplicatePrompt' = TRUE
                         /\ savingExpense' = FALSE
                         /\ UNCHANGED <<scanStatus, scanResult, error, left>>
                    [] a.kind = "ok" ->
                         /\ savingExpense' = FALSE
                         /\ scanResult' = NoResult
                         /\ scanStatus' = "idle"
                         /\ left' = TRUE
                         /\ UNCHANGED <<error, showDuplicatePrompt, duplicateCount>>
                    [] OTHER ->
                         /\ error' = "Failed to save expense."
                         /\ savingExpense' = FALSE
                         /\ UNCHANGED <<scanStatus, scanResult, showDuplicatePrompt,
                                        duplicateCount, left>>
    /\ UNCHANGED <<lastScanRef, lastSent, platformVars>>

-----------------------------------------------------------------------------
(* Properties of the scanner entry points *)

\* a scanned text that is a fiscal receipt
IsFiscal(k) == getValidCheckUrl(RawOf[k]) # Null

\* C18: no /api/scan, /api/find_check or /api/save_check request is in flight
\* for a scanned text that is not a fiscal receipt
C18_NoCallForNonFiscal ==
    \A c \in InFlight : c.op \in {"scan", "find", "sfind", "save"} => IsFiscal(c.key)

\* C5: a text delivered less than 2000 ms after the delivery of the same text
\* before it is suppressed, in continuous mode or not
C5_SecondDeliverySuppressed ==
    (lastDelivery.before # Never /\ lastDelivery.at - lastDelivery.before < DebounceMs)
        => ~lastDelivery.accepted

\* C1: an /api/expense request with confirm_duplicate=true is sent only for a
\* check id for which a 409 has been answered before
C1_ConfirmOnlyAfter409 == lastSent.confirm => lastSent.after409

\* the saved outcome: the screen is left through onBack, with the result
\* cleared and the status idle
SavedOutcome == left' /\ (~left => scanResult' = NoResult /\ scanStatus' = "idle")

\* C14: the yes button of the duplicate prompt sends an /api/expense request
\* with confirm_duplicate=true for a check id that was answered 409, and the
\* success of such a request ends in the saved outcome
C14_ConfirmResends ==
    [][/\ HandleConfirmDuplicate =>
             /\ BagCardinality(requests') = BagCardinality(requests) + 1
             /\ lastSent'.confirm /\ lastSent'.after409
       /\ \A r \in Pending :
             (r.op = "expense" /\ r.confirm /\ ExpenseAnswered(r) /\ existing' # existing)
                 => SavedOutcome]_vars

\* an /api/expense request is in flight
SaveInFlight(reqs) == \E r \in DOMAIN reqs : r.op = "expense"

\* C15: the no button of the duplicate prompt sends nothing and leaves the
\* prompt closed, no save in flight and no scan result that awaits a save
C15_DeclineReturnsIdle ==
    [][DeclineDuplicate =>
          /\ requests' = requests
          /\ ~showDuplicatePrompt'
          /\ ~savingExpense' /\ ~SaveInFlight(requests')
          /\ scanResult' = NoResult]_vars

\* C16: an answer that opens the duplicate prompt is the answer to a save
\* without confirmation, and the count shown is the number of expenses there are
\* for the check id of the request; a save with confirmation is not answered
\* with a conflict and can be answered with the expense created
C16_ConflictCarriesCount ==
    [][\A r \in Pending :
          /\ (r.op = "expense" /\ ExpenseAnswered(r) /\ ~showDuplicatePrompt
                 /\ showDuplicatePrompt')
                => /\ ~r.confirm
                   /\ existing[r.checkId] > 0
                   /\ duplicateCount' = existing[r.checkId]
          /\ (r.op = "expense" /\ r.confirm)
                => /\ \E a \in ExpenseAnswers(r) : a.kind = "ok"
                   /\ ExpenseAnswered(r) => showDuplicatePrompt' = showDuplicatePrompt]_vars

\* two expenses were reported as two, and the save with confirmation was
\* accepted as the third
C16_Witness ==
    /\ duplicateCount = 2
    /\ lastSent.confirm /\ lastSent.after409
    /\ existing[lastSent.checkId] = 3
    /\ left /\ scanResult = NoResult /\ scanStatus = "idle"

\* C17: with a scan result that has no check id, Add Expense and the yes
\* button of the prompt send nothing and set the error Missing check ID.; the
\* scan result, the status, the count of the prompt and the saving flag stay as
\* they are, the screen is not left, and saveExpense itself leaves the prompt
\* as its caller has set it
C17_NoCheckIdNoSave ==
    [][(scanResult.checkId = "" /\ (HandleConfirm \/ HandleConfirmDuplicate)) =>
          /\ requests' = requests
          /\ error' = "Missing check ID."
          /\ UNCHANGED <<scanResult, scanStatus, duplicateCount, savingExpense, left,
                         lastSent, existing>>
          /\ HandleConfirm => UNCHANGED showDuplicatePrompt]_vars

\* Add Expense was pressed on the stored scan of a plain text
C17_Witness ==
    /\ scanStatus = "success"
    /\ scanResult.rawText = "p" /\ scanResult.checkId = ""
    /\ error = "Missing check ID."
    /\ lastSent = NoSent
    /\ ~SaveInFlight(requests)

\* C19: when the user has pressed Scan Again while an /api/expense request was
\* in flight, so that no scan result is shown any more, the continuation of
\* that request changes nothing of what is shown and does not leave the screen
C19_NoStaleUpdate ==
    [][\A r \in Pending :
          (r.op = "expense" /\ ExpenseAnswered(r) /\ ~left /\ scanResult = NoResult)
              => UNCHANGED <<scanStatus, scanResult, error, showDuplicatePrompt,
                             duplicateCount, left>>]_vars

\* the /api/scan requests of a bag of requests
ScanRequests(B) == {r \in DOMAIN B : r.op = "scan"}

\* C28: when the answer of the last /api/scan request in flight arrives on the
\* screen, the status is 'success' or 'error', never 'saving', and a result
\* shown as stored, with the check id a save would send, is that of the string
\* accepted most recently
C28_LastAcceptedWins ==
    [][\A r \in Pending :
          (r.op = "scan" /\ ScanStored(r) /\ ~left /\ ScanRequests(requests') = {})
              => /\ scanStatus' \in {"success", "error"}
                 /\ scanStatus' = "success"
                        => /\ scanResult'.rawText = lastScanRef.text
                           /\ scanResult'.checkId = CheckIdOf[lastScanRef.text]]_vars

-----------------------------------------------------------------------------
(* The specifications *)

DetIdle ==
    /\ dPc = "idle" /\ dRc = "none" /\ dKind = "none" /\ dLacks = "none"
    /\ dIn = <<>> /\ dOut = <<>> /\ dIn2 = <<>> /\ dOut2 = <<>> /\ dBack = <<>>

\* the scan screen before it is entered
ScreenIdle ==
    /\ scanStatus = "idle"
    /\ scanResult = NoResult
    /\ error = ""
    /\ savingExpense = FALSE
    /\ showDuplicatePrompt = FALSE
    /\ duplicateCount = 0
    /\ lastScanRef = NoScan
    /\ left = TRUE
    /\ requests = EmptyBag
    /\ existing = [c \in CheckIds |-> 0]
    /\ answered409 = {}
    /\ lastSent = NoSent

\* the scan history page with its find, save, history and load-more operations
Init == HistInit /\ DetIdle /\ PlatformInit /\ TgInit /\ ScreenIdle /\ DetailsInit /\ deleted = {}

others == <<detVars, platformVars, tgVars, screenVars, detailVars, deleted>>

Next ==
    \/ \E i \in 1..MaxVisible : FindCheckShow(i) /\ UNCHANGED others
    \/ \E i \in 1..MaxVisible : FindCheckFromSaved(i) /\ UNCHANGED others
    \/ \E i \in 1..MaxVisible : FindCheckStart(i) /\ UNCHANGED others
    \/ \E c \in InFlight : FindCheckDone(c) /\ UNCHANGED others
    \/ \E i \in 1..MaxVisible : SaveCheckFetch(i) /\ UNCHANGED others
    \/ \E i \in 1..MaxVisible : SaveCheckSend(i) /\ UNCHANGED others
    \/ \E c \in InFlight : SaveFindDone(c) /\ UNCHANGED others
    \/ \E c \in InFlight : SaveCheckDone(c) /\ UNCHANGED others
    \/ HistStart /\ UNCHANGED others
    \/ Poll /\ UNCHANGED others
    \/ LoadMore /\ UNCHANGED others
    \/ \E c \in InFlight : HistDone(c) /\ UNCHANGED others
    \/ \E c \in InFlight : SrvHist(c) /\ UNCHANGED others
    \/ \E k \in Keys : SrvBackground(k) /\ UNCHANGED others

Spec == Init /\ [][Next]_vars

\* getValidCheckUrl applied to scanned texts
DetStart ==
    DetInit /\ HistInit /\ PlatformInit /\ TgInit /\ ScreenIdle /\ DetailsInit /\ deleted = {}

DetStep ==
    \/ DetectUrl /\ UNCHANGED <<histVars, platformVars, tgVars, screenVars, detailVars, deleted>>
    \/ DetectShort /\ UNCHANGED <<histVars, platformVars, tgVars, screenVars, detailVars, deleted>>
    \/ DetectLoose /\ UNCHANGED <<histVars, platformVars, tgVars, screenVars, detailVars, deleted>>
    \/ DetectOther /\ UNCHANGED <<histVars, platformVars, tgVars, screenVars, detailVars, deleted>>
    \/ DetectTwin /\ UNCHANGED <<histVars, platformVars, tgVars, screenVars, detailVars, deleted>>
    \/ Redetect /\ UNCHANGED <<histVars, platformVars, tgVars, screenVars, detailVars, deleted>>

SpecDetect == DetStart /\ [][DetStep]_vars

\* the scanner entry point of the web page
TgStart ==
    TgInit /\ PlatformInit /\ HistInit /\ DetIdle /\ ScreenIdle /\ DetailsInit /\ deleted = {}

TgStep ==
    \/ TickClock /\ UNCHANGED <<detVars, histVars, tgVars, screenVars, detailVars, deleted>>
    \/ ToggleContinuous /\ UNCHANGED <<detVars, screenVars, detailVars, deleted>>
    \/ ScanButton /\ UNCHANGED <<detVars, screenVars, detailVars, deleted>>
    \/ TgPopupClosed /\ UNCHANGED <<detVars, screenVars, detailVars, deleted>>
    \/ \E t \in TgTexts : TgHandleQrText(t) /\ UNCHANGED <<detVars, screenVars, detailVars, deleted>>
    \/ \E c \in InFlight : SubmitScanDone(c) /\ UNCHANGED <<detVars, screenVars, detailVars, deleted>>

SpecTg == TgStart /\ [][TgStep]_vars

\* the scan screen
ScreenStart ==
    /\ ScreenInit /\ ScreenPlatformInit /\ TgInit /\ HistInit /\ DetIdle
    /\ DetailsInit /\ deleted = {}

ScreenStep ==
    \/ TickClock /\ UNCHANGED <<detVars, histVars, tgVars, screenVars, detailVars, deleted>>
    \/ \E t \in ScreenTexts : HandleQrText(t) /\ UNCHANGED <<detVars, histVars, tgVars, detailVars, deleted>>
    \/ \E r \in Pending : ScanStored(r) /\ UNCHANGED <<detVars, histVars, tgVars, detailVars, deleted>>
    \/ HandleConfirm /\ UNCHANGED <<detVars, histVars, tgVars, detailVars, deleted>>
    \/ HandleConfirmDuplicate /\ UNCHANGED <<detVars, histVars, tgVars, detailVars, deleted>>
    \/ DeclineDuplicate /\ UNCHANGED <<detVars, histVars, tgVars, detailVars, deleted>>
    \/ HandleScanAgain /\ UNCHANGED <<detVars, histVars, tgVars, detailVars, deleted>>
    \/ HandleScan /\ UNCHANGED <<detVars, histVars, tgVars, detailVars, deleted>>
    \/ PopupClosed /\ UNCHANGED <<detVars, histVars, tgVars, detailVars, deleted>>
    \/ Back /\ UNCHANGED <<detVars, histVars, tgVars, detailVars, deleted>>
    \/ \E r \in Pending : ExpenseAnswered(r) /\ UNCHANGED <<detVars, histVars, tgVars, detailVars, deleted>>

SpecScan == ScreenStart /\ [][ScreenStep]_vars

\* the history list with the polling, the load-more and delete actions and the
\* scan of a new text
listOthers == <<detVars, platformVars, tgVars, screenVars, detailVars>>

\* the page is opened while the lookup of the compact-text scan, asked for in
\* an earlier visit, goes on in the background
ListInit ==
    /\ scans = <<>>
    /\ allScans = <<>>
    /\ visibleCount = InitVisibleCount
    /\ loadedCount = 0
    /\ hasMore = FALSE
    /\ findStatus = [k \in Keys |-> "none"]
    /\ saveStatus = [k \in Keys |-> "none"]
    /\ checkCache = [k \in Keys |-> NoCache]
    /\ selectedScan = "none"
    /\ calls = EmptyBag
    /\ db = [k \in Keys |-> IF k = "t" THEN [NoStatus EXCEPT !.finding = TRUE] ELSE NoStatus]
    /\ started = FALSE
    /\ histFresh = FALSE
    /\ clicks = 0

ListStart ==
    /\ ListInit /\ DetIdle /\ PlatformInit /\ TgInit /\ ScreenIdle /\ DetailsInit
    /\ deleted = {}

ListStep ==
    \/ HistStart /\ UNCHANGED others
    \/ Poll /\ UNCHANGED others
    \/ LoadMore /\ UNCHANGED others
    \/ \E c \in InFlight : HistDone(c) /\ UNCHANGED others
    \/ \E c \in InFlight : SrvHistFail(c) /\ UNCHANGED others
    \/ \E c \in InFlight : SrvHistStored(c) /\ UNCHANGED others
    \/ \E k \in Keys : SrvBackground(k) /\ UNCHANGED others
    \/ \E i \in 1..MaxVisible : Delete(i) /\ UNCHANGED listOthers
    \/ SubmitScanStart /\ UNCHANGED others
    \/ \E c \in InFlight : SrvScan(c) /\ UNCHANGED others
    \/ \E c \in InFlight : SubmitScanUpsert(c) /\ UNCHANGED others

SpecList == ListStart /\ [][ListStep]_vars

\* the details panel
detailsOthers == <<detVars, platformVars, tgVars, screenVars, deleted>>

DetailsStep ==
    \/ \E k \in DetailKeys : ViewDetails(k) /\ UNCHANGED detailsOthers
    \/ \E k \in DetailKeys : LoadCheck(k) /\ UNCHANGED detailsOthers
    \/ \E k \in DetailKeys : LoadRaw(k) /\ UNCHANGED detailsOthers
    \/ \E c \in InFlight : ParsedDone(c) /\ UNCHANGED detailsOthers
    \/ \E c \in InFlight : RawDone(c) /\ UNCHANGED detailsOthers
    \/ Reload /\ UNCHANGED detailsOthers

SpecDetails == Init /\ [][DetailsStep]_vars

\* the history page with its lookups and the status polling; the timer of
\* app.js fires every 5 seconds, requests are answered and continuations run,
\* /api/history does not fail forever, and a background lookup ends
PollStep ==
    \/ \E i \in 1..MaxVisible : FindCheckStart(i) /\ UNCHANGED others
    \/ \E c \in InFlight : FindCheckDone(c) /\ UNCHANGED others
    \/ HistStart /\ UNCHANGED others
    \/ Poll /\ UNCHANGED others
    \/ LoadMore /\ UNCHANGED others
    \/ \E c \in InFlight : HistDone(c) /\ UNCHANGED others
    \/ \E c \in InFlight : SrvHistFail(c) /\ UNCHANGED others
    \/ \E c \in InFlight : SrvHistOk(c) /\ UNCHANGED others
    \/ \E k \in Keys : SrvBackground(k) /\ UNCHANGED others

\* the enabling condition of HistDone: an answer of /api/history has arrived
HistReady == \E c \in InFlight : c.op = "hist" /\ c.st # "req"

\* weak fairness of each step that is not the user's, that of HistDone written
\* out with its enabling condition; a request of /api/history that is made
\* again and again is answered with rows in the end
PollFairness ==
    /\ WF_vars(HistStart /\ UNCHANGED others)
    /\ WF_vars(Poll /\ UNCHANGED others)
    /\ WF_vars(\E c \in InFlight : FindCheckDone(c) /\ UNCHANGED others)
    /\ []<>~HistReady \/ []<><<\E c \in InFlight : HistDone(c) /\ UNCHANGED others>>_vars
    /\ SF_vars(\E c \in InFlight : SrvHistOk(c) /\ UNCHANGED others)
    /\ WF_vars(\E k \in Keys : SrvBackground(k) /\ UNCHANGED others)

SpecPoll == Init /\ [][PollStep]_vars /\ PollFairness

====
